---- MODULE Spec2Model ----
(***************************************************************************)
(* KPI table builder of kpi_refresh_system: process_company_data           *)
(* (ingestion, pivot, _reorder_periods, _add_growth_calculations) and the  *)
(* display stages that consume its table.                                  *)
(*                                                                         *)
(* Numbers.  Python floats are modelled by exact rationals                 *)
(* <<n, d, e>> = (n / d) * 10^e in canonical form (gcd(n, d) = 1, d > 0    *)
(* and coprime to 10, n not a multiple of 10), so that equal numbers are   *)
(* equal tuples and 10^12 fits TLC's 32-bit integers.  NaN / None is the   *)
(* empty tuple.  Binary rounding noise of IEEE doubles is not modelled.    *)
(***************************************************************************)
EXTENDS Integers, Sequences, FiniteSets, TLC

VARIABLES api_data, kpi_mappings, pc, all_data_points, periods_df,
          pivot_df, result_df, scaled_df, shown, log, long_data

(* the state of the table builder and of the stages that consume its table *)
processor_vars == <<api_data, kpi_mappings, pc, all_data_points, periods_df,
                    pivot_df, result_df, scaled_df, shown, log, long_data>>

(* CanalystClient: the environment it is built in, the object, the wall   *)
(* clock, the requests that went out, the client call in progress and the  *)
(* vendor it talks to; api is the CanalystAPI of canalyst_api_solution.py  *)
VARIABLES environ, client, clock, last_request_time, sent, call, vendor, api

client_vars == <<environ, client, clock, last_request_time, sent, call, vendor, api>>

(* KPIRefreshApp.refresh_kpis: the mappings file, the tickers asked for,   *)
(* the companies of the batch, the tables and the errors collected, the    *)
(* position of the loop and the rows of the error file                     *)
VARIABLES company_mappings, tickers, companies, all_company_data, errors, step,
          error_csv

refresh_vars == <<company_mappings, tickers, companies, all_company_data, errors, step,
                  error_csv>>

(* CSINDiscoveryTool.bulk_search_tickers: its arguments, its two outputs   *)
(* and the position of the loops                                           *)
VARIABLES ticker_list, ticker_type, results, not_found, search

discovery_vars == <<ticker_list, ticker_type, results, not_found, search>>

(* KPIScheduler and the script schedulers: the minute of the day, the jobs *)
(* registered with the schedule library, and the position of the program   *)
VARIABLES now, jobs, scheduler

scheduler_vars == <<now, jobs, scheduler>>

(* to_excel_multi_sheets: its argument, the sheets of the workbook behind  *)
(* the writer, and the position of the function                            *)
VARIABLES data_dict, book, export

excel_vars == <<data_dict, book, export>>

(* KPIDiscoveryTool.interactive_selection: the time series offered, the    *)
(* local list selected, the attribute selected_kpis and the menu position  *)
VARIABLES time_series_list, selected, selected_kpis, menu

selection_vars == <<time_series_list, selected, selected_kpis, menu>>

(* the dashboard pages: st.session_state and what the page rendered last   *)
VARIABLES session_state, rendered

session_vars == <<session_state, rendered>>

(* the command line tools and the dashboard *)
tools_vars == <<scheduler_vars, excel_vars, selection_vars, session_vars>>

(* the state of the other components *)
outside == <<client_vars, refresh_vars, discovery_vars, tools_vars>>

vars == <<processor_vars, outside>>

----------------------------------------------------------------------------
(* Arithmetic on the number representation                                 *)

Null == <<>>

Abs(x) == IF x < 0 THEN -x ELSE x

Min(a, b) == IF a < b THEN a ELSE b

RECURSIVE Gcd(_, _)
Gcd(a, b) == IF b = 0 THEN a ELSE Gcd(b, a % b)

RECURSIVE Pow10(_)
Pow10(k) == IF k = 0 THEN 1 ELSE 10 * Pow10(k - 1)

RECURSIVE NormN(_, _, _)
NormN(n, d, e) == IF n % 10 = 0 THEN NormN(n \div 10, d, e + 1) ELSE <<n, d, e>>

RECURSIVE NormD(_, _, _)
NormD(n, d, e) ==
    IF d % 10 = 0 THEN NormD(n, d \div 10, e - 1)
    ELSE IF d % 2 = 0 THEN NormD(n * 5, d \div 2, e - 1)
    ELSE IF d % 5 = 0 THEN NormD(n * 2, d \div 5, e - 1)
    ELSE NormN(n, d, e)

(* the canonical form of (n / d) * 10^e, d > 0 *)
Norm(n, d, e) ==
    IF n = 0 THEN <<0, 1, 0>>
    ELSE LET g == Gcd(Abs(n), d) IN NormD(n \div g, d \div g, e)

(* the number an integer literal denotes *)
N(i) == Norm(i, 1, 0)

Zero == N(0)

(* x / k for a positive integer k *)
DivInt(x, k) ==
    LET g == Gcd(Abs(x[1]), k) IN
    IF x[1] = 0 THEN x ELSE Norm(x[1] \div g, x[2] * (k \div g), x[3])

RECURSIVE GeScaled(_, _, _, _)
GeScaled(n, d, e, k) ==
    IF n \div d >= k THEN TRUE
    ELSE IF e = 0 THEN FALSE
    ELSE GeScaled(n * 10, d, e - 1, k)

(* abs(x) >= k for a positive integer k *)
AbsGe(x, k) ==
    LET n == Abs(x[1]) IN
    IF x[3] >= 0 THEN GeScaled(n, x[2], x[3], k)
    ELSE IF -x[3] > 9 THEN FALSE
    ELSE (n \div x[2]) \div Pow10(-x[3]) >= k

(* ((c - p) / abs(p)) * 100, p # 0 *)
PctChange(c, p) ==
    LET k == Min(c[3], p[3])
        a == c[1] * p[2] * Pow10(c[3] - k) - p[1] * c[2] * Pow10(p[3] - k)
    IN  Norm(a, c[2] * Abs(p[1]), k - p[3] + 2)

(* x rounded to two decimals, half up *)
Round2(x) ==
    IF x[3] + 2 >= 0
    THEN LET m == x[1] * Pow10(x[3] + 2)
         IN  Norm((2 * m + x[2]) \div (2 * x[2]), 1, -2)
    ELSE LET m == x[2] * Pow10(-(x[3] + 2))
         IN  Norm((2 * x[1] + m) \div (2 * m), 1, -2)

----------------------------------------------------------------------------
(* Program constants                                                       *)

Million == 1000000

AnnualWindow == 5

QuarterlyWindow == 12

YoYQuarterLag == 4

YoYQuarterSpan == 8

----------------------------------------------------------------------------
(* Sequences                                                               *)

RECURSIVE Reverse(_)
Reverse(s) == IF s = <<>> THEN <<>> ELSE Append(Reverse(Tail(s)), Head(s))

Take(s, k) == SubSeq(s, 1, Min(k, Len(s)))

Range(s) == {s[i] : i \in 1..Len(s)}

Map(s, F(_)) == [i \in 1..Len(s) |-> F(s[i])]

Filter(s, P(_)) == SelectSeq(s, P)

(* position of the first occurrence of x in s, 0 when absent *)
IndexOf(s, x) ==
    IF x \in Range(s) THEN CHOOSE i \in 1..Len(s) : s[i] = x /\ \A j \in 1..(i - 1) : s[j] # x
    ELSE 0

(* ascending sort of s by the strict order Lt *)
SortValues(s, Lt(_, _)) == SortSeq(s, Lt)

(* the distinct elements of s in order of first occurrence *)
RECURSIVE Unique(_)
Unique(s) ==
    IF s = <<>> THEN <<>>
    ELSE LET u == Unique(SubSeq(s, 1, Len(s) - 1))
         IN  IF s[Len(s)] \in Range(u) THEN u ELSE Append(u, s[Len(s)])

----------------------------------------------------------------------------
(* Vendor records                                                          *)

(* a period name: 'FY24' is [k |-> "FY", q |-> 0, y |-> 24], 'Q1-24' is   *)
(* [k |-> "Q", q |-> 1, y |-> 24]; 'H1-24' stands for every other shape   *)
FY(y) == [k |-> "FY", q |-> 0, y |-> y]

Qtr(q, y) == [k |-> "Q", q |-> q, y |-> y]

Half(q, y) == [k |-> "H", q |-> q, y |-> y]

(* str.startswith on a period name *)
StartsWithFY(name) == name.k = "FY"

StartsWithQ(name) == name.k = "Q"

(* string order of period names: 'FY..' < 'H..' < 'Q..', then digit by digit *)
KindRank(k) == CASE k = "FY" -> 1 [] k = "H" -> 2 [] OTHER -> 3

NameLt(a, b) ==
    \/ KindRank(a.k) < KindRank(b.k)
    \/ a.k = b.k /\ a.q < b.q
    \/ a.k = b.k /\ a.q = b.q /\ a.y < b.y

(* a vendor value: JSON null, a string (v = Null: the empty string) or a number *)
NoneVal == [t |-> "none", v |-> Null]

StrVal(x) == [t |-> "str", v |-> x]

NumVal(x) == [t |-> "num", v |-> x]

(* Python truthiness of dp['value'] *)
Truthy(val) ==
    CASE val.t = "none" -> FALSE
      [] val.t = "str"  -> val.v # Null
      [] OTHER          -> val.v # Zero

(* float(dp['value']) *)
Float(val) == val.v

----------------------------------------------------------------------------
(* process_company_data: ingestion                                         *)

(* units_lookup.get(name, default) over the rows of kpi_mappings *)
RECURSIVE UnitsLookup(_, _, _)
UnitsLookup(mappings, name, default) ==
    IF mappings = <<>> THEN default
    ELSE LET last == mappings[Len(mappings)]
         IN  IF last.time_series_name = name THEN last.units
             ELSE UnitsLookup(SubSeq(mappings, 1, Len(mappings) - 1), name, default)

(* the value stored for a historical data point *)
ScaleValue(val) ==
    IF Truthy(val)
    THEN IF AbsGe(Float(val), Million) THEN DivInt(Float(val), Million) ELSE Float(val)
    ELSE Null

HistoricalPoint(dp, mappings) ==
    [time_series      |-> dp.time_series.name,
     time_series_desc |-> dp.time_series.description,
     period           |-> dp.period,
     value            |-> ScaleValue(dp.value),
     is_forecast      |-> FALSE,
     units            |-> UnitsLookup(mappings, dp.time_series.name, dp.time_series.unit)]

ForecastPoint(dp) ==
    [time_series      |-> dp.time_series.name,
     time_series_desc |-> dp.time_series.description,
     period           |-> dp.period,
     value            |-> IF Truthy(dp.value) THEN Float(dp.value) ELSE Null,
     is_forecast      |-> TRUE,
     units            |-> dp.time_series.unit]

----------------------------------------------------------------------------
(* process_company_data: pivot                                             *)

(* A DataFrame: index (row keys), columns (period names) and values, one   *)
(* sequence of cells per row.                                              *)
EmptyFrame == [index |-> <<>>, columns |-> <<>>, values |-> <<>>]

Cell(df, r, name) == df.values[r][IndexOf(df.columns, name)]

MetricKey(pt) ==
    [time_series |-> pt.time_series, time_series_desc |-> pt.time_series_desc,
     units |-> pt.units]

(* string order of the index keys (time_series, time_series_desc, units); *)
(* the metric names of this model differ in their first letter             *)
KeyRank(key) ==
    CASE key.time_series = "EPS" -> 1 [] key.time_series = "Revenue" -> 2 [] OTHER -> 3

KeyLt(a, b) == KeyRank(a) < KeyRank(b)

(* aggfunc='first': the first non-null value of the group, NaN if none *)
RECURSIVE First(_, _, _)
First(points, key, name) ==
    IF points = <<>> THEN Null
    ELSE LET pt == Head(points)
         IN  IF MetricKey(pt) = key /\ pt.period = name /\ pt.value # Null
             THEN pt.value
             ELSE First(Tail(points), key, name)

(* df.pivot_table(index=[time_series, time_series_desc, units],            *)
(* columns='period', values='value', aggfunc='first'), dropna=True: groups *)
(* whose values are all null are dropped before unstacking, rows and       *)
(* columns come out sorted.                                                *)
PivotTable(points) ==
    LET live == Filter(points, LAMBDA pt : pt.value # Null)
        keys == SortValues(Unique(Map(live, MetricKey)), KeyLt)
        cols == SortValues(Unique(Map(live, LAMBDA pt : pt.period)), NameLt)
    IN  [index   |-> keys,
         columns |-> cols,
         values  |-> [r \in 1..Len(keys) |->
                        [c \in 1..Len(cols) |-> First(points, keys[r], cols[c])]]]

----------------------------------------------------------------------------
(* _create_periods_dataframe and _reorder_periods                          *)

(* the periods left in the order of the vendor response *)
CreatePeriodsDataframeUnsorted(periods) == periods

(* df.sort_values('start_date') *)
CreatePeriodsDataframe(periods) ==
    SortValues(periods, LAMBDA a, b : a.start_date < b.start_date)

NamesOfType(periods, type) ==
    Map(Filter(periods, LAMBDA p : p.period_duration_type = type), LAMBDA p : p.name)

(* the window taken from the oldest end of the catalog *)
OrderedColumnsOldest(df, periods) ==
    LET annual_periods    == Reverse(Take(NamesOfType(periods, "fiscal_year"), AnnualWindow))
        quarterly_periods == Reverse(Take(NamesOfType(periods, "fiscal_quarter"), QuarterlyWindow))
    IN  Filter(annual_periods \o quarterly_periods, LAMBDA col : col \in Range(df.columns))

OrderedColumns(df, periods) ==
    LET annual_periods    == Take(Reverse(NamesOfType(periods, "fiscal_year")), AnnualWindow)
        quarterly_periods == Take(Reverse(NamesOfType(periods, "fiscal_quarter")), QuarterlyWindow)
    IN  Filter(annual_periods \o quarterly_periods, LAMBDA col : col \in Range(df.columns))

(* df[ordered_columns] *)
SelectColumns(df, cols) ==
    [index   |-> df.index,
     columns |-> cols,
     values  |-> [r \in 1..Len(df.index) |->
                    [c \in 1..Len(cols) |-> Cell(df, r, cols[c])]]]

ReorderPeriods(df, periods) == SelectColumns(df, OrderedColumns(df, periods))

----------------------------------------------------------------------------
(* _add_growth_calculations                                                *)

AnnualCols(df) == Filter(df.columns, StartsWithFY)

QuarterlyCols(df) == Filter(df.columns, StartsWithQ)

(* a zero denominator stored as zero growth *)
GrowthCellZeroFill(curr, prev) ==
    IF curr # Null /\ prev # Null
    THEN IF prev = Zero THEN Zero ELSE PctChange(curr, prev)
    ELSE Null

(* the guarded growth formula of lines 150-151, 161-162, 170-171 *)
GrowthCell(curr, prev) ==
    IF curr # Null /\ prev # Null /\ prev # Zero THEN PctChange(curr, prev) ELSE Null

(* QoQ over every pair of adjacent columns, Annual ones included *)
QoQCellAllColumns(df, r, name) ==
    LET i == IndexOf(df.columns, name)
    IN  IF i >= 1 /\ i + 1 <= Len(df.columns)
        THEN GrowthCell(Cell(df, r, name), Cell(df, r, df.columns[i + 1]))
        ELSE Null

(* the cell of the QoQ row of base row r under column name *)
QoQCell(df, r, name) ==
    LET quarterly_cols == QuarterlyCols(df)
        i == IndexOf(quarterly_cols, name)
    IN  IF i >= 1 /\ i + 1 <= Len(quarterly_cols)
        THEN GrowthCell(Cell(df, r, name), Cell(df, r, quarterly_cols[i + 1]))
        ELSE Null

(* Annual YoY with the operands exchanged *)
YoYCellSwapped(df, r, name) ==
    LET annual_cols    == Filter(df.columns, StartsWithFY)
        quarterly_cols == Filter(df.columns, StartsWithQ)
        a == IndexOf(annual_cols, name)
        i == IndexOf(quarterly_cols, name)
    IN  IF a >= 1 /\ a + 1 <= Len(annual_cols)
        THEN GrowthCell(Cell(df, r, annual_cols[a + 1]), Cell(df, r, name))
        ELSE IF i >= 1 /\ i + YoYQuarterLag <= Len(quarterly_cols)
        THEN GrowthCell(Cell(df, r, name), Cell(df, r, quarterly_cols[i + YoYQuarterLag]))
        ELSE Null

(* the cell of the YoY row of base row r under column name *)
YoYCell(df, r, name) ==
    LET annual_cols    == AnnualCols(df)
        quarterly_cols == QuarterlyCols(df)
        a == IndexOf(annual_cols, name)
        i == IndexOf(quarterly_cols, name)
    IN  IF a >= 1 /\ a + 1 <= Len(annual_cols)
        THEN GrowthCell(Cell(df, r, name), Cell(df, r, annual_cols[a + 1]))
        ELSE IF /\ i >= 1
                /\ Len(quarterly_cols) >= YoYQuarterLag
                /\ i - 1 < Min(YoYQuarterSpan, Len(quarterly_cols))
                /\ (i - 1) + YoYQuarterLag < Len(quarterly_cols)
        THEN GrowthCell(Cell(df, r, name), Cell(df, r, quarterly_cols[i + YoYQuarterLag]))
        ELSE Null

BaseLabel == "NaN"

QoQLabel == "qoq growth"

YoYLabel == "yoy growth"

RowKey(key, label) == [metric |-> key, variant |-> label]

(* the growth rows appended in the other order *)
GrowthRowKeysYoYFirst(df, r) ==
    <<RowKey(df.index[r], BaseLabel), RowKey(df.index[r], YoYLabel),
      RowKey(df.index[r], QoQLabel)>>

(* the three rows appended for base row r: the row itself, QoQ, YoY *)
GrowthRowKeys(df, r) ==
    <<RowKey(df.index[r], BaseLabel), RowKey(df.index[r], QoQLabel),
      RowKey(df.index[r], YoYLabel)>>

GrowthRowValues(df, r) ==
    <<df.values[r],
      [c \in 1..Len(df.columns) |-> QoQCell(df, r, df.columns[c])],
      [c \in 1..Len(df.columns) |-> YoYCell(df, r, df.columns[c])]>>

RECURSIVE Flatten(_)
Flatten(ss) == IF ss = <<>> THEN <<>> ELSE Head(ss) \o Flatten(Tail(ss))

AddGrowthCalculations(df) ==
    [index   |-> Flatten([r \in 1..Len(df.index) |-> GrowthRowKeys(df, r)]),
     columns |-> IF df.index = <<>> THEN <<>> ELSE df.columns,
     values  |-> Flatten([r \in 1..Len(df.index) |-> GrowthRowValues(df, r)])]

----------------------------------------------------------------------------
(* Display stages: KPIService.scale_to_millions, add_mm_suffix_to_index,   *)
(* format_dataframe_for_display / format_value                             *)

IsBaseRow(df, r) == df.index[r].variant = BaseLabel

(* any(abs(val) >= 1000000 for val in row_values if pd.notna(val)) *)
CheckNeedsMM(row) == \E c \in 1..Len(row) : row[c] # Null /\ AbsGe(row[c], Million)

ScaleToMillions(df) ==
    [df EXCEPT !.values =
        [r \in 1..Len(df.index) |->
            IF IsBaseRow(df, r) /\ CheckNeedsMM(df.values[r])
            THEN [c \in 1..Len(df.columns) |->
                    IF df.values[r][c] = Null THEN Null
                    ELSE DivInt(df.values[r][c], Million)]
            ELSE df.values[r]]]

(* the ', mm' suffix of every row: growth rows look their base row up      *)
(* under a key ending in pd.NA, which is never a key of needs_mm           *)
AddMMSuffixToIndex(df) ==
    [r \in 1..Len(df.index) |-> IsBaseRow(df, r) /\ CheckNeedsMM(df.values[r])]

(* format_value: the number handed to the format specification, the        *)
(* decimals of the specification (f"{x:,.<digits>f}") and the '%' sign     *)
Formatted(x, digits, pct) == [value |-> x, digits |-> digits, percent |-> pct]

(* the empty string of a null cell *)
Blank == [value |-> Null, digits |-> 0, percent |-> FALSE]

FormatValue(value, is_growth, needs_mm) ==
    IF value = Null THEN Blank
    ELSE IF is_growth THEN Formatted(value, 1, TRUE)
    ELSE IF needs_mm
    THEN LET value_in_mm == DivInt(value, Million)
         IN  IF ~AbsGe(value_in_mm, 1) THEN Formatted(value_in_mm, 3, FALSE)
             ELSE IF ~AbsGe(value_in_mm, 10) THEN Formatted(value_in_mm, 1, FALSE)
             ELSE Formatted(value_in_mm, 0, FALSE)
    ELSE Formatted(value, 0, FALSE)

(* format_table_for_display with both growth rows shown *)
FormatTableForDisplay(df) ==
    [index     |-> df.index,
     columns   |-> df.columns,
     mm_suffix |-> AddMMSuffixToIndex(df),
     values    |-> [r \in 1..Len(df.index) |->
                     [c \in 1..Len(df.columns) |->
                        FormatValue(df.values[r][c], ~IsBaseRow(df, r),
                                    IsBaseRow(df, r) /\ CheckNeedsMM(df.values[r]))]]]

NoDisplay == [index |-> <<>>, columns |-> <<>>, mm_suffix |-> <<>>, values |-> <<>>]

----------------------------------------------------------------------------
(* CSVExporter._export_company_data: the table in long format              *)

ValueType == "Value"

Percentage == "Percentage"

AnnualType == "Annual"

QuarterlyType == "Quarterly"

(* the row of the long table for a non-null cell.  The index of the table  *)
(* has four levels, the fourth being NaN on a base row, so every index     *)
(* tuple has length 4 and takes the branch of the growth rows.             *)
LongRow(df, r, name) ==
    [kpi_code        |-> df.index[r].metric.time_series,
     kpi_description |-> df.index[r].metric.time_series_desc,
     period          |-> name,
     period_type     |-> IF StartsWithFY(name) THEN AnnualType ELSE QuarterlyType,
     metric_type     |-> df.index[r].variant,
     value           |-> Cell(df, r, name),
     units           |-> Percentage]

(* for period, value in row.items(): if pd.notna(value) *)
LongRows(df, r) ==
    Map(Filter(df.columns, LAMBDA name : Cell(df, r, name) # Null),
        LAMBDA name : LongRow(df, r, name))

ExportCompanyData(df) == Flatten([r \in 1..Len(df.index) |-> LongRows(df, r)])

----------------------------------------------------------------------------
(* Inputs: the vendor responses a refresh hands to process_company_data    *)

MaxAnnual == 6

MaxQuarterly == 13

MaxGap == 1

NewestYear == 24

Revenue == [name |-> "Revenue", description |-> "Total Revenue", unit |-> "USD"]

EPS == [name |-> "EPS", description |-> "Earnings Per Share", unit |-> "USD per share"]

KeyOf(ts) ==
    [time_series |-> ts.name, time_series_desc |-> ts.description, units |-> ts.unit]

Mapping(ts) == [time_series_name |-> ts.name, units |-> ts.unit]

DP(ts, name, val) == [time_series |-> ts, period |-> name, value |-> val]

(* first month of the period, counted from year 0 *)
StartDate(name) ==
    CASE name.k = "FY" -> 12 * name.y
      [] name.k = "Q"  -> 12 * name.y + 3 * (name.q - 1)
      [] OTHER         -> 12 * name.y + 6 * (name.q - 1)

TypeOf(name) ==
    CASE name.k = "FY" -> "fiscal_year"
      [] name.k = "Q"  -> "fiscal_quarter"
      [] OTHER         -> "fiscal_half"

Period(name) ==
    [name |-> name, period_duration_type |-> TypeOf(name), start_date |-> StartDate(name)]

(* the quarter number t = 4 * year + (quarter - 1) *)
QuarterAt(t) == Qtr((t % 4) + 1, t \div 4)

QuarterNo(name) == 4 * name.y + (name.q - 1)

(* the na newest fiscal years and nq newest quarters, oldest first *)
AnnualNames(na) == [i \in 1..na |-> FY(NewestYear - na + i)]

QuarterlyNames(nq) == [i \in 1..nq |-> QuarterAt(4 * NewestYear - nq + i)]

Observations(ts, names, Val(_)) == [i \in 1..Len(names) |-> DP(ts, names[i], Val(names[i]))]

(* no data point for the period *)
Absent == [t |-> "absent", v |-> Null]

Present(dps) == Filter(dps, LAMBDA dp : dp.value # Absent)

Input(periods, hist, fc, mappings) ==
    /\ api_data = [periods |-> periods, historical_data |-> hist, forecast_data |-> fc]
    /\ kpi_mappings = mappings

(* long catalogs in either order, data missing for the newest periods and  *)
(* for one period in the middle, an observation outside the catalog        *)
InitWindow ==
    \E na \in 0..MaxAnnual, nq \in 0..MaxQuarterly, gap \in 0..MaxGap,
       rev \in BOOLEAN, off \in BOOLEAN :
    \E hole \in 0..(na + nq) :
        LET names == AnnualNames(na) \o QuarterlyNames(nq)
            has(i) == /\ i # hole
                      /\ ~(i <= na /\ i > na - gap)
                      /\ ~(i > na /\ i > na + nq - gap)
            kept  == Filter([i \in 1..Len(names) |-> <<i, names[i]>>],
                            LAMBDA x : has(x[1]))
            hist  == [i \in 1..Len(kept) |->
                        DP(Revenue, kept[i][2], StrVal(N(StartDate(kept[i][2]))))]
            extra == IF off THEN <<DP(Revenue, FY(NewestYear + 1), StrVal(N(7)))>> ELSE <<>>
        IN  Input(Map(IF rev THEN Reverse(names) ELSE names, Period),
                  hist \o extra, <<>>, <<Mapping(Revenue)>>)

GrowthQuarters == <<Qtr(1, 24), Qtr(4, 23), Qtr(3, 23), Qtr(2, 23), Qtr(1, 23)>>

GrowthYears == <<FY(24), FY(23), FY(22)>>

QuarterValues ==
    {Absent, StrVal(N(0)), StrVal(N(90)), StrVal(N(100)), StrVal(N(110)), StrVal(N(-100))}

Trillion == <<1, 1, 12>>

AnnualValues ==
    {Absent, StrVal(N(0)), StrVal(N(999999)), StrVal(N(1000000)), StrVal(N(1200000)),
     StrVal(N(-2000000)), StrVal(Trillion)}

EPSRows(names, eps) ==
    IF eps THEN Observations(EPS, names, LAMBDA n : StrVal(N(5))) ELSE <<>>

(* one metric row over five quarters and two years; a second metric that   *)
(* has data for every period makes the absent cells of the first null      *)
InitGrowth ==
    \E v1 \in QuarterValues, v2 \in QuarterValues, v5 \in QuarterValues,
       v3 \in {Absent, StrVal(N(100))}, v4 \in {Absent, StrVal(N(100))},
       eps \in BOOLEAN :
        LET qv    == <<v1, v2, v3, v4, v5>>
            years == <<FY(24), FY(23)>>
            names == Reverse(years) \o Reverse(GrowthQuarters)
            hist  == Present([i \in 1..5 |-> DP(Revenue, GrowthQuarters[i], qv[i])])
                     \o <<DP(Revenue, FY(24), StrVal(N(1200000))),
                          DP(Revenue, FY(23), StrVal(N(1000000)))>>
                     \o EPSRows(names, eps)
        IN  Input(Map(names, Period), hist, <<>>,
                  <<Mapping(Revenue)>> \o (IF eps THEN <<Mapping(EPS)>> ELSE <<>>))

InitAnnual ==
    \E a1 \in AnnualValues, a2 \in AnnualValues, a3 \in AnnualValues, eps \in BOOLEAN :
        LET av    == <<a1, a2, a3>>
            qs    == <<Qtr(1, 24), Qtr(4, 23), Qtr(1, 23)>>
            names == Reverse(GrowthYears) \o Reverse(qs)
            hist  == Present([i \in 1..3 |-> DP(Revenue, GrowthYears[i], av[i])])
                     \o <<DP(Revenue, Qtr(1, 24), StrVal(N(110))),
                          DP(Revenue, Qtr(4, 23), StrVal(N(100))),
                          DP(Revenue, Qtr(1, 23), StrVal(N(90)))>>
                     \o EPSRows(names, eps)
        IN  Input(Map(names, Period), hist, <<>>,
                  <<Mapping(Revenue)>> \o (IF eps THEN <<Mapping(EPS)>> ELSE <<>>))

RawForms ==
    {Absent, NoneVal, StrVal(Null), NumVal(N(0)), StrVal(N(0)), StrVal(N(2000000)),
     StrVal(N(500000))}

(* the forms a vendor value takes, duplicates, an observation of a period  *)
(* that is neither annual nor quarterly, forecasts, requested metrics      *)
(* without observations                                                    *)
InitForms ==
    \E r1 \in RawForms, r2 \in RawForms, extra \in {"none", "duplicate", "half"},
       fc \in {<<>>, <<DP(Revenue, FY(24), StrVal(N(3000000)))>>,
               <<DP(Revenue, FY(23), NoneVal)>>},
       req \in {<<>>, <<Mapping(Revenue)>>, <<Mapping(Revenue), Mapping(EPS)>>} :
        LET names == <<FY(23), FY(24), Half(1, 24)>>
            hist  == Present(<<DP(Revenue, FY(24), r1), DP(Revenue, FY(23), r2)>>)
                     \o CASE extra = "duplicate" -> <<DP(Revenue, FY(24), StrVal(N(42)))>>
                          [] extra = "half" -> <<DP(Revenue, Half(1, 24), StrVal(N(7)))>>
                          [] OTHER -> <<>>
        IN  Input(Map(names, Period), hist, fc, req)

----------------------------------------------------------------------------
(* The components at rest: each specification runs one of them             *)

NoCall ==
    [method |-> "none", pc |-> "idle", page |-> 0, attempt |-> 0,
     all_results |-> <<>>, error |-> "none"]

ClientIdle ==
    /\ environ = [token |-> FALSE, config_token |-> FALSE, credentials |-> FALSE]
    /\ client = "unbuilt"
    /\ clock = 0
    /\ last_request_time = 0
    /\ sent = <<>>
    /\ call = NoCall
    /\ vendor = [pages |-> 0, absolute |-> FALSE, latency |-> 0, series |-> FALSE]
    /\ api = "unbuilt"


NoStep == [pc |-> "idle", position |-> 0, kpi |-> 0]

RefreshIdle ==
    /\ company_mappings = <<>>
    /\ tickers = {}
    /\ companies = <<>>
    /\ all_company_data = {}
    /\ errors = <<>>
    /\ step = NoStep
    /\ error_csv = <<>>

NoSearch == [pc |-> "idle", i |-> 0, type |-> 0]

DiscoveryIdle ==
    /\ ticker_list = <<>>
    /\ ticker_type = "auto"
    /\ results = <<>>
    /\ not_found = <<>>
    /\ search = NoSearch

(* the table builder is not running *)
ProcessorIdle ==
    /\ api_data = [periods |-> <<>>, historical_data |-> <<>>, forecast_data |-> <<>>]
    /\ kpi_mappings = <<>>
    /\ pc = "idle"
    /\ all_data_points = <<>>
    /\ periods_df = <<>>
    /\ pivot_df = EmptyFrame
    /\ result_df = EmptyFrame
    /\ scaled_df = EmptyFrame
    /\ shown = NoDisplay
    /\ log = <<>>
    /\ long_data = <<>>

(* no scheduler has been started *)
NoScheduler ==
    [entry |-> "none", pc |-> "idle", last |-> "none", logged |-> "none", loop |-> FALSE,
     job |-> 0]

SchedulerIdle ==
    /\ now = 0
    /\ jobs = <<>>
    /\ scheduler = NoScheduler

NoExport == [pc |-> "idle", i |-> 0, sheets_written |-> 0]

ExcelIdle ==
    /\ data_dict = <<>>
    /\ book = <<>>
    /\ export = NoExport

(* last: the menu option handled last, and whether it left out a KPI that  *)
(* was selected already                                                    *)
NoMenu == [pc |-> "idle", company |-> 0, last |-> [choice |-> "none", refused |-> FALSE]]

SelectionIdle ==
    /\ time_series_list = <<>>
    /\ selected = <<>>
    /\ selected_kpis = <<>>
    /\ menu = NoMenu

(* st.session_state of a browser session that has run no page yet *)
NoSession ==
    [app |-> Absent, selected_ticker |-> Absent, company_data |-> Absent,
     selected_kpis |-> Absent, fetched_data |-> Absent,
     is_multi_company |-> Absent, companies_data |-> Absent,
     available_metrics |-> Absent, model_version |-> Absent]

(* search: the message of the search of this run; selection: what stands   *)
(* under Current Selection (or how the By Company page ended), shown: the  *)
(* company ids shown as selected, data: the company whose fetched table    *)
(* is displayed                                                            *)
NothingRendered ==
    [page |-> "none", search |-> "none", selection |-> "none", shown |-> {},
     data |-> 0]

SessionIdle ==
    /\ session_state = NoSession
    /\ rendered = NothingRendered

ToolsIdle == SchedulerIdle /\ ExcelIdle /\ SelectionIdle /\ SessionIdle

OutsideIdle == ClientIdle /\ RefreshIdle /\ DiscoveryIdle /\ ToolsIdle

----------------------------------------------------------------------------
(* CanalystClient (canalyst_client.py)                                     *)

(* the clock counts tenths of a second *)
TicksPerSecond == 10

Seconds(n) == n * TicksPerSecond

(* config['api']['rate_limit']['requests_per_second'] *)
RequestsPerSecond == 5

(* min_interval = 1.0 / self._requests_per_second *)
MinInterval == TicksPerSecond \div RequestsPerSecond

(* @retry(stop=stop_after_attempt(3), wait=wait_exponential(multiplier=1, min=4, max=10)) *)
MaxAttempts == 3

BackoffMin == 4

BackoffMax == 10

(* response.headers.get('Retry-After', 60) *)
DefaultRetryAfter == 60

Max(a, b) == IF a >= b THEN a ELSE b

RECURSIVE Pow2(_)
Pow2(k) == IF k <= 0 THEN 1 ELSE 2 * Pow2(k - 1)

(* the wait of tenacity after a failed attempt *)
Backoff(attempt) == Seconds(Max(BackoffMin, Min(BackoffMax, Pow2(attempt - 1))))

(* time.time() when the program starts, far from _last_request_time = 0 *)
Epoch == Seconds(100)

MaxPages == 3

MaxFailures == 3

MaxLatency == 3

(* the records of page i of a paginated answer *)
PageResults(i) == <<2 * i - 1, 2 * i>>

RECURSIVE AllPages(_)
AllPages(n) == IF n = 0 THEN <<>> ELSE AllPages(n - 1) \o PageResults(n)

(* the Retry-After header of a 429 response: absent, a number of seconds,  *)
(* or an HTTP date, on which int() raises ValueError                       *)
NoHeader == [form |-> "absent", seconds |-> 0]

SecondsHeader(n) == [form |-> "seconds", seconds |-> n]

DateHeader == [form |-> "date", seconds |-> 0]

RetryAfterHeaders == {NoHeader, SecondsHeader(5), DateHeader}

Methods ==
    {"list_time_series", "get_historical_data_points", "get_forecast_data_points",
     "get_historical_periods"}

(* what the environment and the configuration file hold: the variable     *)
(* CANALYST_API_TOKEN, the key api.token of config.yaml, the credentials   *)
(* of CanalystAPI (arguments or CANALYST_API_KEY / USERNAME / PASSWORD)    *)
Environments ==
    {e \in [token : BOOLEAN, config_token : BOOLEAN, credentials : BOOLEAN] :
        Cardinality({f \in {"token", "config_token", "credentials"} : e[f]}) <= 1}

ClientInit ==
    /\ ProcessorIdle
    /\ ToolsIdle
    /\ RefreshIdle
    /\ DiscoveryIdle
    /\ environ \in Environments
    /\ client = "unbuilt"
    /\ clock = Epoch
    /\ last_request_time = 0
    /\ sent = <<>>
    /\ call = NoCall
    /\ vendor \in [pages : 1..MaxPages, absolute : BOOLEAN, latency : {0, MaxLatency},
                   series : BOOLEAN]
    /\ api = "unbuilt"

(* what the client leaves alone *)
beyond_client == <<processor_vars, refresh_vars, discovery_vars, tools_vars>>

(* CanalystClient.__init__, called directly or by KPIRefreshApp.__init__   *)
(* after load_config: both raise ValueError on a missing token             *)
Construct ==
    /\ client = "unbuilt"
    /\ api = "unbuilt"
    /\ \E via \in {"CanalystClient", "KPIRefreshApp"} :
          LET loaded == via = "CanalystClient" \/ environ.token \/ environ.config_token
          IN  client' = IF loaded /\ environ.token THEN "ready" ELSE "ValueError"
    /\ last_request_time' = 0
    /\ UNCHANGED <<environ, clock, sent, call, vendor, api, beyond_client>>

(* a client method is called: each starts with the lookup of the series id *)
StartCall ==
    /\ client = "ready"
    /\ call.pc = "idle"
    /\ \E m \in Methods : call' = [NoCall EXCEPT !.method = m, !.pc = "series", !.attempt = 1]
    /\ UNCHANGED <<environ, client, clock, last_request_time, sent, vendor, api,
                   beyond_client>>

(* the request of this step goes through _make_request: the lookups, the   *)
(* first page, and a following page whose 'next' is not a full URL         *)
ViaMakeRequest ==
    \/ call.pc \in {"series", "slug", "single"}
    \/ call.pc = "pages" /\ (call.page = 1 \/ ~vendor.absolute)

(* _rate_limit: the time at which it returns *)
SendTime ==
    IF clock - last_request_time < MinInterval
    THEN last_request_time + MinInterval
    ELSE clock

Request(time, via, status, header) ==
    [time |-> time, target |-> <<call.pc, call.page>>, via |-> via,
     attempt |-> call.attempt, status |-> status, header |-> header,
     authorized |-> environ.token]

Failures == Cardinality({i \in 1..Len(sent) : sent[i].status # "ok"})

(* the caller's code after a response that carries the data *)
Advance(c) ==
    CASE c.pc = "series" ->
            IF ~vendor.series THEN [c EXCEPT !.pc = "raised", !.error = "ValueError"]
            ELSE IF c.method = "get_forecast_data_points"
            THEN [c EXCEPT !.pc = "slug", !.attempt = 1]
            ELSE IF c.method = "get_historical_periods"
            THEN [c EXCEPT !.pc = "single", !.page = 1, !.attempt = 1]
            ELSE [c EXCEPT !.pc = "pages", !.page = 1, !.attempt = 1]
      [] c.pc = "slug" -> [c EXCEPT !.pc = "pages", !.page = 1, !.attempt = 1]
      [] c.pc = "single" ->
            [c EXCEPT !.pc = "returned", !.all_results = PageResults(1)]
      [] OTHER ->
            LET got == c.all_results \o PageResults(c.page)
            IN  IF c.page < vendor.pages
                THEN [c EXCEPT !.page = c.page + 1, !.attempt = 1, !.all_results = got]
                ELSE [c EXCEPT !.pc = "returned", !.all_results = got]

(* tenacity after an exception in _make_request *)
Retried(c) ==
    IF c.attempt < MaxAttempts
    THEN [c EXCEPT !.attempt = c.attempt + 1]
    ELSE [c EXCEPT !.pc = "raised", !.error = "RetryError"]

BackoffAfter(c) == IF c.attempt < MaxAttempts THEN Backoff(c.attempt) ELSE 0

Running == client = "ready" /\ call.pc \in {"series", "slug", "single", "pages"}

(* _make_request, an attempt answered with the data *)
RequestOk ==
    /\ Running /\ ViaMakeRequest
    /\ last_request_time' = SendTime
    /\ sent' = Append(sent, Request(SendTime, "_make_request", "ok", NoHeader))
    /\ clock' = SendTime + vendor.latency
    /\ call' = Advance(call)
    /\ UNCHANGED <<environ, client, vendor, api, beyond_client>>

(* the 429 branch without its sleep *)
RetryAfterSleepSkipped(header) == 0

(* time.sleep(retry_after) of line 49; int() raises on an HTTP date *)
RetryAfterSleep(header) ==
    CASE header.form = "absent"  -> Seconds(DefaultRetryAfter)
      [] header.form = "seconds" -> Seconds(header.seconds)
      [] OTHER                   -> 0

(* _make_request, an attempt answered with 429 *)
RequestRateLimited ==
    /\ Running /\ ViaMakeRequest
    /\ Failures < MaxFailures
    /\ \E header \in RetryAfterHeaders :
          /\ sent' = Append(sent, Request(SendTime, "_make_request", "429", header))
          /\ clock' = SendTime + vendor.latency + RetryAfterSleep(header)
                      + BackoffAfter(call)
    /\ last_request_time' = SendTime
    /\ call' = Retried(call)
    /\ UNCHANGED <<environ, client, vendor, api, beyond_client>>

(* _make_request, an attempt that fails: raise_for_status on another error *)
(* status, or an exception of session.get                                  *)
RequestFails ==
    /\ Running /\ ViaMakeRequest
    /\ Failures < MaxFailures
    /\ \E status \in {"5xx", "network"} :
          sent' = Append(sent, Request(SendTime, "_make_request", status, NoHeader))
    /\ clock' = SendTime + vendor.latency + BackoffAfter(call)
    /\ last_request_time' = SendTime
    /\ call' = Retried(call)
    /\ UNCHANGED <<environ, client, vendor, api, beyond_client>>

(* the loop body for a 'next' that is a full URL: self.session.get and    *)
(* response.json(), without _rate_limit, retry or status check             *)
Following == Running /\ ~ViaMakeRequest

FollowOk ==
    /\ Following
    /\ sent' = Append(sent, Request(clock, "session", "ok", NoHeader))
    /\ clock' = clock + vendor.latency
    /\ call' = Advance(call)
    /\ UNCHANGED <<environ, client, last_request_time, vendor, api, beyond_client>>

(* session.get raises: the exception leaves the method *)
FollowNetworkError ==
    /\ Following
    /\ Failures < MaxFailures
    /\ sent' = Append(sent, Request(clock, "session", "network", NoHeader))
    /\ clock' = clock + vendor.latency
    /\ call' = [call EXCEPT !.pc = "raised", !.error = "ConnectionError"]
    /\ UNCHANGED <<environ, client, last_request_time, vendor, api, beyond_client>>

(* an error status: the body is a JSON object without 'results' and 'next' *)
(* (the loop ends with what was collected so far) or it is not JSON and    *)
(* response.json() raises                                                  *)
FollowErrorStatus ==
    /\ Following
    /\ Failures < MaxFailures
    /\ \E status \in {"429", "5xx"}, json \in BOOLEAN :
          /\ sent' = Append(sent, Request(clock, "session", status, NoHeader))
          /\ call' = IF json
                     THEN [call EXCEPT !.pc = "returned"]
                     ELSE [call EXCEPT !.pc = "raised", !.error = "JSONDecodeError"]
    /\ clock' = clock + vendor.latency
    /\ UNCHANGED <<environ, client, last_request_time, vendor, api, beyond_client>>

(* CanalystAPI.__init__ (canalyst_api_solution.py): without credentials it *)
(* logs a warning and returns                                              *)
ApiConstruct ==
    /\ api = "unbuilt"
    /\ client = "unbuilt"
    /\ api' = "ready"
    /\ UNCHANGED <<environ, client, clock, last_request_time, sent, call, vendor,
                   beyond_client>>

(* CanalystAPI.test_connection: self.session.get(f"{self.base_url}/") *)
ApiTestConnection ==
    /\ api = "ready"
    /\ \E status \in {"ok", "401"} :
          /\ environ.credentials => status = "ok"
          /\ sent' = Append(sent, [time |-> clock, target |-> <<"root", 0>>,
                                   via |-> "CanalystAPI", attempt |-> 1,
                                   status |-> status, header |-> NoHeader,
                                   authorized |-> environ.credentials])
    /\ clock' = clock + vendor.latency
    /\ api' = "tested"
    /\ UNCHANGED <<environ, client, last_request_time, call, vendor, beyond_client>>

ClientNext ==
    \/ Construct
    \/ StartCall
    \/ RequestOk
    \/ RequestRateLimited
    \/ RequestFails
    \/ FollowOk
    \/ FollowNetworkError
    \/ FollowErrorStatus
    \/ ApiConstruct
    \/ ApiTestConnection

ClientSpec == ClientInit /\ [][ClientNext]_vars

----------------------------------------------------------------------------
(* KPIRefreshApp.refresh_kpis (main.py)                                    *)

MaxCompanies == 3

MaxKpis == 2

(* row i of company_mappings.csv with the number of its rows in            *)
(* kpi_mappings.csv                                                        *)
Company(i, kpis) == [search_ticker |-> i, company_id |-> 100 + i, kpis |-> kpis]

(* the file with n rows; add_company refuses a ticker that is in the file  *)
(* but not a second ticker of a company that is: with alias, the last row  *)
(* is another ticker of the company of the first                           *)
CompanyMappings(n, kpis, alias) ==
    [i \in 1..n |-> IF alias /\ i = n /\ n > 1
                    THEN [Company(i, kpis) EXCEPT !.company_id = 101]
                    ELSE Company(i, kpis)]

RefreshInit ==
    /\ ProcessorIdle
    /\ ToolsIdle
    /\ ClientIdle
    /\ DiscoveryIdle
    /\ \E n \in 0..MaxCompanies, kpis \in 0..MaxKpis, alias \in BOOLEAN :
          company_mappings = CompanyMappings(n, kpis, alias)
    /\ tickers \in SUBSET (1..2)
    /\ companies = <<>>
    /\ all_company_data = {}
    /\ errors = <<>>
    /\ step = NoStep
    /\ error_csv = <<>>

(* what refresh_kpis leaves alone *)
beyond_refresh == <<processor_vars, client_vars, discovery_vars, tools_vars>>

(* lines 72-82: the companies to process, all of them without tickers *)
StartRefresh ==
    /\ step.pc = "idle"
    /\ companies' = IF tickers # {}
                    THEN Filter(company_mappings, LAMBDA c : c.search_ticker \in tickers)
                    ELSE company_mappings
    /\ all_company_data' = {}
    /\ errors' = <<>>
    /\ step' = [pc |-> IF companies' = <<>> THEN "export" ELSE "model",
                position |-> 1, kpi |-> 0]
    /\ UNCHANGED <<company_mappings, tickers, error_csv, beyond_refresh>>

company == companies[step.position]

(* the loop goes on with the next company, or ends *)
NextCompany ==
    IF step.position < Len(companies)
    THEN [pc |-> "model", position |-> step.position + 1, kpi |-> 0]
    ELSE [pc |-> "export", position |-> step.position + 1, kpi |-> 0]

(* the handler that leaves the loop *)
ExceptAborts(e) ==
    /\ errors' = Append(errors, [ticker |-> company.search_ticker, error |-> e])
    /\ step' = [pc |-> "export", position |-> Len(companies) + 1, kpi |-> 0]
    /\ UNCHANGED all_company_data

(* lines 128-130: except Exception as e *)
Except(e) ==
    /\ errors' = Append(errors, [ticker |-> company.search_ticker, error |-> e])
    /\ step' = NextCompany
    /\ UNCHANGED all_company_data

(* lines 89-95: the latest equity model and the KPIs of the company *)
GetLatestModel ==
    /\ step.pc = "model"
    /\ \/ /\ step' = IF company.kpis = 0 THEN [step EXCEPT !.pc = "periods"]
                     ELSE [step EXCEPT !.pc = "history", !.kpi = 1]
          /\ UNCHANGED <<all_company_data, errors>>
       \/ Except("get_latest_equity_model")
    /\ UNCHANGED <<company_mappings, tickers, companies, error_csv, beyond_refresh>>

(* lines 100-110: the historical data points of one KPI *)
GetHistory ==
    /\ step.pc = "history"
    /\ \/ /\ step' = IF step.kpi < company.kpis THEN [step EXCEPT !.kpi = step.kpi + 1]
                     ELSE [step EXCEPT !.pc = "periods"]
          /\ UNCHANGED <<all_company_data, errors>>
       \/ Except("get_historical_data_points")
    /\ UNCHANGED <<company_mappings, tickers, companies, error_csv, beyond_refresh>>

(* line 113 *)
GetPeriods ==
    /\ step.pc = "periods"
    /\ \/ /\ step' = [step EXCEPT !.pc = "process"]
          /\ UNCHANGED <<all_company_data, errors>>
       \/ Except("get_historical_periods")
    /\ UNCHANGED <<company_mappings, tickers, companies, error_csv, beyond_refresh>>

(* lines 116-126: process_company_data returns the table, or raises (it    *)
(* does when no KPI has data)                                              *)
ProcessCompany ==
    /\ step.pc = "process"
    /\ \/ /\ company.kpis > 0
          /\ all_company_data' = all_company_data \cup {company.company_id}
          /\ step' = NextCompany
          /\ UNCHANGED errors
       \/ Except("process_company_data")
    /\ UNCHANGED <<company_mappings, tickers, companies, error_csv, beyond_refresh>>

(* lines 152-156: error_df.to_csv(error_path), one row per entry of errors *)
WriteErrors == IF errors # <<>> THEN errors ELSE error_csv

(* lines 132-156: the exports, then the error file; an exception of the    *)
(* exporters is not caught and leaves refresh_kpis                         *)
ExportResults ==
    /\ step.pc = "export"
    /\ \/ /\ step' = [step EXCEPT !.pc = "done"]
          /\ error_csv' = WriteErrors
       \/ /\ all_company_data # {}
          /\ step' = [step EXCEPT !.pc = "raised"]
          /\ UNCHANGED error_csv
    /\ UNCHANGED <<company_mappings, tickers, companies, all_company_data, errors,
                   beyond_refresh>>

RefreshNext ==
    \/ StartRefresh
    \/ GetLatestModel
    \/ GetHistory
    \/ GetPeriods
    \/ ProcessCompany
    \/ ExportResults

RefreshSpec == RefreshInit /\ [][RefreshNext]_vars

----------------------------------------------------------------------------
(* CSINDiscoveryTool.bulk_search_tickers (csin_discovery.py)               *)

MaxTickers == 3

(* the ticker types tried in turn when ticker_type is 'auto' *)
TickerTypes == <<"canalyst", "bloomberg", "capiq", "factset", "thomson">>

DiscoveryInit ==
    /\ ProcessorIdle
    /\ ToolsIdle
    /\ ClientIdle
    /\ RefreshIdle
    /\ \E n \in 0..MaxTickers : ticker_list = [i \in 1..n |-> i]
    /\ ticker_type \in {"auto", "canalyst"}
    /\ results = <<>>
    /\ not_found = <<>>
    /\ search = NoSearch

(* what bulk_search_tickers leaves alone *)
beyond_discovery == <<processor_vars, client_vars, refresh_vars, tools_vars>>

(* lines 102-106 *)
StartSearch ==
    /\ search.pc = "idle"
    /\ results' = <<>>
    /\ not_found' = <<>>
    /\ search' = [pc |-> IF ticker_list = <<>> THEN "returned" ELSE "search",
                  i |-> 1, type |-> 1]
    /\ UNCHANGED <<ticker_list, ticker_type, beyond_discovery>>

(* the type the ticker is searched under *)
SearchedType == IF ticker_type = "auto" THEN TickerTypes[search.type] ELSE ticker_type

(* the outer loop goes on with the next ticker, or the function returns *)
NextTicker ==
    [pc |-> IF search.i < Len(ticker_list) THEN "search" ELSE "returned",
     i |-> search.i + 1, type |-> 1]

(* search_by_ticker returns companies: the first one is appended to        *)
(* results (lines 114-130, 137-150)                                        *)
SearchFound ==
    /\ search.pc = "search"
    /\ results' = Append(results, [search_ticker |-> ticker_list[search.i],
                                   found_via |-> SearchedType])
    /\ search' = NextTicker
    /\ UNCHANGED <<ticker_list, ticker_type, not_found, beyond_discovery>>

(* search_by_ticker returns no company: the next type is tried, after the  *)
(* last one the ticker goes to not_found (lines 132-133, 151-152)          *)
SearchEmpty ==
    /\ search.pc = "search"
    /\ IF ticker_type = "auto" /\ search.type < Len(TickerTypes)
       THEN /\ search' = [search EXCEPT !.type = search.type + 1]
            /\ UNCHANGED not_found
       ELSE /\ not_found' = Append(not_found, ticker_list[search.i])
            /\ search' = NextTicker
    /\ UNCHANGED <<ticker_list, ticker_type, results, beyond_discovery>>

(* the lookup fails: _make_request raises after its last attempt in        *)
(* search_by_ticker, or session.get raises in _extract_csin; nothing in    *)
(* bulk_search_tickers catches it                                          *)
SearchRaises ==
    /\ search.pc = "search"
    /\ search' = [search EXCEPT !.pc = "raised"]
    /\ UNCHANGED <<ticker_list, ticker_type, results, not_found, beyond_discovery>>

DiscoveryNext ==
    \/ StartSearch
    \/ SearchFound
    \/ SearchEmpty
    \/ SearchRaises

DiscoverySpec == DiscoveryInit /\ [][DiscoveryNext]_vars

----------------------------------------------------------------------------
(* The schedulers: KPIScheduler (src/scheduler.py), the schedule command   *)
(* of main.py, daily_scheduler.py and simple_scheduler.py.  They register  *)
(* jobs with the schedule library and poll it: schedule.run_pending() runs *)
(* every job whose next_run is not later than the current time and, when   *)
(* the job function has returned, sets next_run to the next occurrence of  *)
(* the job's time after the current time.                                  *)

(* time.sleep(60) *)
PollSeconds == 60

(* time is counted in minutes *)
PollInterval == PollSeconds \div 60

Hour == 60

Day == 24 * Hour

(* 'HH:MM' as the minute of the day *)
TimeOfDay(h, m) == Hour * h + m

(* config.get('scheduling', {}).get('time', '06:00') *)
DefaultTime == TimeOfDay(6, 0)

(* the longest refresh, in minutes *)
MaxDuration == 2

(* the times of day at which a scheduler is started *)
StartTimes == {TimeOfDay(5, 59), TimeOfDay(6, 0), TimeOfDay(23, 59)}

(* the values of scheduling.time in config.yaml: absent, or a time *)
ConfiguredTimes == {DefaultTime, TimeOfDay(14, 30)}

(* the next occurrence of the time of day at after minute t of today; a    *)
(* job's next_run counts minutes from the start of today                   *)
NextAt(t, at) == IF at > t THEN at ELSE at + Day

(* schedule.every().day.at(time).do(job) registered at minute t *)
DailyJob(t, at) == [unit |-> "day", at |-> at, next_run |-> NextAt(t, at)]

(* schedule.every().hour.do(job) *)
HourlyJob(t) == [unit |-> "hour", at |-> 0, next_run |-> t + Hour]

(* Job._schedule_next_run after the job function returned at minute t *)
ScheduleNextRun(job, t) ==
    IF job.unit = "day" THEN [job EXCEPT !.next_run = NextAt(t, job.at)]
    ELSE [job EXCEPT !.next_run = t + Hour]

(* the clock after d more minutes, and the jobs seen from the new day when *)
(* midnight has passed                                                     *)
ClockAfter(d) == (now + d) % Day

JobsAfter(js, d) ==
    IF now + d >= Day
    THEN [i \in 1..Len(js) |-> [js[i] EXCEPT !.next_run = js[i].next_run - Day]]
    ELSE js

SchedulerInit ==
    /\ ProcessorIdle
    /\ ClientIdle
    /\ RefreshIdle
    /\ DiscoveryIdle
    /\ ExcelIdle
    /\ SelectionIdle
    /\ SessionIdle
    /\ now \in StartTimes
    /\ jobs = <<>>
    /\ scheduler = NoScheduler

(* what the schedulers leave alone *)
beyond_scheduler == <<processor_vars, client_vars, refresh_vars, discovery_vars,
                      excel_vars, selection_vars, session_vars>>

(* main.py, the schedule command: KPIScheduler(app.config) passes one      *)
(* argument to __init__(self, refresh_function, config) and raises         *)
(* TypeError; schedule_daily_refresh and run_scheduler are not reached     *)
(* (and are not methods of KPIScheduler)                                   *)
ScheduleCommand ==
    /\ scheduler.pc = "idle"
    /\ scheduler' = [entry |-> "schedule", pc |-> "raised", last |-> "none",
                     logged |-> "none", loop |-> FALSE, job |-> 0]
    /\ UNCHANGED <<now, jobs, beyond_scheduler>>

(* KPIScheduler(refresh_function, config).start(): lines 31-36 *)
Start ==
    /\ scheduler.pc = "idle"
    /\ \E at \in ConfiguredTimes : jobs' = <<DailyJob(now, at)>>
    /\ scheduler' = [entry |-> "KPIScheduler", pc |-> "polling", last |-> "none",
                     logged |-> "none", loop |-> TRUE, job |-> 0]
    /\ UNCHANGED <<now, beyond_scheduler>>

(* KPIScheduler.run_once *)
RunOnce ==
    /\ scheduler.pc = "idle"
    /\ scheduler' = [entry |-> "KPIScheduler", pc |-> "refreshing", last |-> "none",
                     logged |-> "none", loop |-> FALSE, job |-> 0]
    /\ UNCHANGED <<now, jobs, beyond_scheduler>>

(* daily_scheduler.main: the menu of lines 63-88 *)
DailyMain ==
    /\ scheduler.pc = "idle"
    /\ \E choice \in {"1", "2", "3", "4", "invalid time", "invalid choice"} :
          /\ jobs' = CASE choice = "2" -> <<DailyJob(now, DefaultTime)>>
                       [] choice = "3" -> <<HourlyJob(now)>>
                       [] choice = "4" -> <<DailyJob(now, TimeOfDay(14, 30))>>
                       [] OTHER -> <<>>
          /\ scheduler' = [entry |-> "daily_scheduler",
                           pc    |-> CASE choice = "1" -> "refreshing"
                                       [] choice \in {"2", "3", "4"} -> "polling"
                                       [] OTHER -> "returned",
                           last  |-> "none", logged |-> "none",
                           loop  |-> choice \in {"2", "3", "4"},
                           job   |-> 0]
    /\ UNCHANGED <<now, beyond_scheduler>>

(* simple_scheduler.main: the job, then 'Run once now for testing?' *)
SimpleMain ==
    /\ scheduler.pc = "idle"
    /\ jobs' = <<DailyJob(now, DefaultTime)>>
    /\ \E answer \in {"y", "n"} :
          scheduler' = [entry |-> "simple_scheduler",
                        pc    |-> IF answer = "y" THEN "refreshing" ELSE "polling",
                        last  |-> "none", logged |-> "none", loop |-> TRUE, job |-> 0]
    /\ UNCHANGED <<now, beyond_scheduler>>

(* the job that is due, 0 if none *)
Pending == IF jobs # <<>> /\ jobs[1].next_run <= now THEN 1 ELSE 0

(* schedule.run_pending() of the loop: the job function is called when the *)
(* job is due, otherwise the loop goes to sleep                            *)
RunPending ==
    /\ scheduler.pc = "polling"
    /\ scheduler' = [scheduler EXCEPT !.pc = IF Pending # 0 THEN "due" ELSE "sleeping"]
    /\ UNCHANGED <<now, jobs, beyond_scheduler>>

(* the job function starts: run_refresh, run_kpi_retrieval *)
JobStarts ==
    /\ scheduler.pc = "due"
    /\ scheduler' = [scheduler EXCEPT !.pc = "refreshing", !.job = Pending]
    /\ UNCHANGED <<now, jobs, beyond_scheduler>>

(* where the program goes when the job function has returned: back into    *)
(* run_pending and to the sleep of the loop, into the loop after the run   *)
(* for testing, or out of the program                                      *)
AfterJob ==
    CASE scheduler.job # 0 -> "sleeping"
      [] scheduler.loop    -> "polling"
      [] OTHER             -> "returned"

(* the jobs when the job function that took d minutes has returned *)
Rescheduled(d) ==
    IF scheduler.job # 0
    THEN <<ScheduleNextRun(JobsAfter(jobs, d)[scheduler.job], ClockAfter(d))>>
    ELSE JobsAfter(jobs, d)

(* the exception of the refresh leaves run_refresh: it reaches the         *)
(* 'except Exception' of start, which logs it and ends the loop            *)
RunRefreshUncaught(d) ==
    /\ scheduler' = [scheduler EXCEPT !.pc = "returned", !.last = "raised",
                                      !.logged = "Scheduler error", !.job = 0]
    /\ jobs' = JobsAfter(jobs, d)

(* run_refresh lines 24-25, run_kpi_retrieval lines 38-43: the failure is  *)
(* logged and the job function returns                                     *)
RunRefreshFailed(d) ==
    /\ scheduler' = [scheduler EXCEPT !.pc = AfterJob, !.last = "raised",
                                      !.logged = "refresh failed", !.job = 0]
    /\ jobs' = Rescheduled(d)

(* the refresh ends after d minutes: it returned (exit code 0), or it      *)
(* raised (exited with another code, could not be started)                 *)
RefreshEnds ==
    /\ scheduler.pc = "refreshing"
    /\ \E d \in 0..MaxDuration :
          /\ now' = ClockAfter(d)
          /\ \/ /\ scheduler' = [scheduler EXCEPT !.pc = AfterJob, !.last = "returned",
                                                  !.logged = "refresh completed",
                                                  !.job = 0]
                /\ jobs' = Rescheduled(d)
             \/ RunRefreshFailed(d)
    /\ UNCHANGED beyond_scheduler

(* time.sleep(60) *)
Sleep ==
    /\ scheduler.pc = "sleeping"
    /\ now' = ClockAfter(PollInterval)
    /\ jobs' = JobsAfter(jobs, PollInterval)
    /\ scheduler' = [scheduler EXCEPT !.pc = "polling"]
    /\ UNCHANGED beyond_scheduler

(* Ctrl+C in the loop: 'Scheduler stopped by user' *)
KeyboardInterrupt ==
    /\ scheduler.loop
    /\ scheduler.pc \in {"polling", "due", "sleeping", "refreshing"}
    /\ scheduler' = [scheduler EXCEPT !.pc = "stopped", !.logged = "stopped by user"]
    /\ UNCHANGED <<now, jobs, beyond_scheduler>>

SchedulerNext ==
    \/ ScheduleCommand
    \/ Start
    \/ RunOnce
    \/ DailyMain
    \/ SimpleMain
    \/ RunPending
    \/ JobStarts
    \/ RefreshEnds
    \/ Sleep
    \/ KeyboardInterrupt

SchedulerSpec == SchedulerInit /\ [][SchedulerNext]_vars

(* the loop is polled, the job function is called when due, and a refresh  *)
(* that was started ends                                                   *)
SchedulerFairness ==
    /\ WF_vars(RunPending)
    /\ WF_vars(JobStarts)
    /\ WF_vars(RefreshEnds)
    /\ WF_vars(Sleep)

FairSchedulerSpec == SchedulerSpec /\ SchedulerFairness

----------------------------------------------------------------------------
(* to_excel_multi_sheets (src/utils/export_utils.py).  A name is the       *)
(* sequence of its characters.  A sheet of the workbook is its title and   *)
(* the entries of data_dict whose cells were written into it: the writer   *)
(* keeps its sheets by name and writes a frame whose sheet name it already *)
(* holds into that sheet.                                                  *)

(* sheet_name = company_name[:31] *)
SheetNameLimit == 31

(* for char in ['/', '\\', '?', '*', '[', ']', ':'] *)
InvalidCharacters == {"/", "\\", "?", "*", "[", "]", ":"}

(* the entries of data_dict *)
MaxSheets == 2

Repeat(c, n) == [i \in 1..n |-> c]

(* company_name[:31] *)
Truncate(name) == SubSeq(name, 1, Min(Len(name), SheetNameLimit))

(* sheet_name.replace(char, '_') for every invalid character *)
ReplaceInvalid(name) ==
    [i \in 1..Len(name) |-> IF name[i] \in InvalidCharacters THEN "_" ELSE name[i]]

SheetName(company_name) == ReplaceInvalid(Truncate(company_name))

(* names that end at, before and after the limit, in a letter or in an     *)
(* invalid character                                                       *)
CompanyNames ==
    {Repeat("a", n) \o <<c>> :
        n \in {0, SheetNameLimit - 1, SheetNameLimit}, c \in {"b", "/", ":"}}

(* a value of data_dict: None, an empty frame, a frame, or a frame on      *)
(* which to_excel raises                                                   *)
Frames == {"None", "empty", "frame", "unwritable"}

(* dictionaries as sequences of items with distinct keys *)
DataDicts ==
    UNION {{d \in [1..n -> [name : CompanyNames, df : Frames]] :
               \A i, j \in 1..n : d[i].name = d[j].name => i = j} : n \in 0..MaxSheets}

InfoSheet == [title |-> <<"I", "n", "f", "o">>, frames |-> <<>>]

ExcelInit ==
    /\ ProcessorIdle
    /\ ClientIdle
    /\ RefreshIdle
    /\ DiscoveryIdle
    /\ SchedulerIdle
    /\ SelectionIdle
    /\ SessionIdle
    /\ data_dict \in DataDicts
    /\ book = <<>>
    /\ export = NoExport

(* what to_excel_multi_sheets leaves alone *)
beyond_excel == <<processor_vars, client_vars, refresh_vars, discovery_vars,
                  scheduler_vars, selection_vars, session_vars>>

(* lines 17-23: ValueError for an empty dictionary, else the writer *)
ToExcel ==
    /\ export.pc = "idle"
    /\ export' = IF data_dict = <<>>
                 THEN [export EXCEPT !.pc = "raised"]
                 ELSE [pc |-> "writing", i |-> 1, sheets_written |-> 0]
    /\ UNCHANGED <<data_dict, book, beyond_excel>>

item == data_dict[export.i]

(* the position of the sheet with the title in the workbook, 0 if none *)
SheetOf(b, title) ==
    IF \E k \in 1..Len(b) : b[k].title = title
    THEN CHOOSE k \in 1..Len(b) : b[k].title = title
    ELSE 0

(* df.to_excel(writer, sheet_name=...) writes the cells of entry i: into   *)
(* the sheet of that name when the writer has one, into a new sheet        *)
(* otherwise                                                               *)
WriteCells(b, title, i) ==
    IF SheetOf(b, title) # 0
    THEN [b EXCEPT ![SheetOf(b, title)].frames = Append(@, i)]
    ELSE Append(b, [title |-> title, frames |-> <<i>>])

(* lines 26-27 *)
SkipSheet ==
    /\ export.pc = "writing"
    /\ export.i <= Len(data_dict)
    /\ item.df \in {"None", "empty"}
    /\ export' = [export EXCEPT !.i = export.i + 1]
    /\ UNCHANGED <<data_dict, book, beyond_excel>>

(* lines 30-62 *)
WriteSheet ==
    /\ export.pc = "writing"
    /\ export.i <= Len(data_dict)
    /\ item.df = "frame"
    /\ book' = WriteCells(book, SheetName(item.name), export.i)
    /\ export' = [export EXCEPT !.i = export.i + 1,
                                !.sheets_written = export.sheets_written + 1]
    /\ UNCHANGED <<data_dict, beyond_excel>>

(* lines 36-46 and 64-66: to_excel raises before the writer has the sheet, *)
(* or while the cells are written; the exception is printed and the loop   *)
(* goes on                                                                 *)
WriteSheetFails ==
    /\ export.pc = "writing"
    /\ export.i <= Len(data_dict)
    /\ item.df = "unwritable"
    /\ \/ UNCHANGED book
       \/ book' = WriteCells(book, SheetName(item.name), export.i)
    /\ export' = [export EXCEPT !.i = export.i + 1]
    /\ UNCHANGED <<data_dict, beyond_excel>>

(* lines 68-92: the 'Info' sheet when no sheet was counted, and the return *)
ReturnWorkbook ==
    /\ export.pc = "writing"
    /\ export.i > Len(data_dict)
    /\ book' = IF export.sheets_written = 0 THEN Append(book, InfoSheet) ELSE book
    /\ export' = [export EXCEPT !.pc = "returned"]
    /\ UNCHANGED <<data_dict, beyond_excel>>

ExcelNext ==
    \/ ToExcel
    \/ SkipSheet
    \/ WriteSheet
    \/ WriteSheetFails
    \/ ReturnWorkbook

ExcelSpec == ExcelInit /\ [][ExcelNext]_vars

----------------------------------------------------------------------------
(* KPIDiscoveryTool.interactive_selection (kpi_discovery.py).  A time      *)
(* series is its slug, its primary name, its category and the words of its *)
(* names and description; a search term or a pattern matches a series when *)
(* it is one of its words or its category.                                 *)

(* the time series a company offers *)
MaxSeries == 2

(* the companies discover_all walks through, in this order *)
SelectionCompanies == <<101, 102>>

TotalRevenue ==
    [slug |-> 1, name |-> "revenue", category |-> "Income Statement",
     words |-> {"revenue"}]

RevenueGrowth ==
    [slug |-> 2, name |-> "revenue_growth", category |-> "Income Statement",
     words |-> {"revenue", "growth"}]

EarningsPerShare ==
    [slug |-> 3, name |-> "eps", category |-> "Per Share", words |-> {"eps"}]

TimeSeries == {TotalRevenue, RevenueGrowth, EarningsPerShare}

(* common_patterns, the categories in the order of the dictionary *)
CommonPatterns ==
    <<[category |-> "Revenue", patterns |-> {"revenue", "sales", "turnover"}],
      [category |-> "Per Share", patterns |-> {"eps", "dps", "per_share"}],
      [category |-> "Growth", patterns |-> {"growth", "yoy", "cagr"}]>>

(* matches[:5] *)
TopPerCategory == 5

SelectionInit ==
    /\ ProcessorIdle
    /\ ClientIdle
    /\ RefreshIdle
    /\ DiscoveryIdle
    /\ SchedulerIdle
    /\ ExcelIdle
    /\ SessionIdle
    /\ time_series_list \in
          UNION {{l \in [1..n -> TimeSeries] : \A i, j \in 1..n : l[i] = l[j] => i = j} :
                    n \in 0..MaxSeries}
    /\ selected = <<>>
    /\ selected_kpis = <<>>
    /\ menu = NoMenu

(* what interactive_selection leaves alone *)
beyond_selection == <<processor_vars, client_vars, refresh_vars, discovery_vars,
                      scheduler_vars, excel_vars, session_vars>>

(* any(k['slug'] == kpi['slug'] for k in selected) *)
IsSelected(sel, kpi) == \E k \in 1..Len(sel) : sel[k].slug = kpi.slug

(* selected.append(kpi) without the test *)
AppendAlways(sel, kpi) == Append(sel, kpi)

(* if not any(k['slug'] == kpi['slug'] for k in selected): selected.append(kpi) *)
AppendNew(sel, kpi) == IF IsSelected(sel, kpi) THEN sel ELSE AppendAlways(sel, kpi)

(* for kpi in kpis: the guarded append of each *)
RECURSIVE AppendEach(_, _)
AppendEach(sel, kpis) ==
    IF kpis = <<>> THEN sel
    ELSE AppendEach(AppendNew(sel, Head(kpis)), Tail(kpis))

(* the answers to 'Select KPIs (comma-separated numbers, all, or back)':   *)
(* the words, a text that int() rejects, or up to two numbers              *)
Selections(n) ==
    {[kind |-> "all", numbers |-> <<>>], [kind |-> "back", numbers |-> <<>>],
     [kind |-> "invalid", numbers |-> <<>>]}
    \cup {[kind |-> "numbers", numbers |-> ns] :
             ns \in UNION {[1..k -> 1..(n + 1)] : k \in 1..2}}

(* the KPIs of offered a selection names: all of them, or those at the     *)
(* numbers within range (idx = number - 1, 0 <= idx < len)                 *)
Chosen(offered, selection) ==
    CASE selection.kind = "all" -> offered
      [] selection.kind = "numbers" ->
            LET inside == Filter(selection.numbers, LAMBDA x : 1 <= x /\ x <= Len(offered))
            IN  [k \in 1..Len(inside) |-> offered[inside[k]]]
      [] OTHER -> <<>>

(* some chosen KPI is not appended because its slug is selected already *)
Refused(sel, kpis) == Len(AppendEach(sel, kpis)) < Len(sel) + Len(kpis)

(* the menu after an option that offered KPIs and read a selection *)
Select(choice, offered, selection) ==
    /\ selected' = AppendEach(selected, Chosen(offered, selection))
    /\ menu' = [menu EXCEPT !.last = [choice  |-> choice,
                                      refused |-> Refused(selected, Chosen(offered, selection))]]

(* the menu after an option that changed nothing *)
Unchanged(choice) ==
    /\ menu' = [menu EXCEPT !.last = [choice |-> choice, refused |-> FALSE]]
    /\ UNCHANGED selected

(* interactive_selection is called for the next company: selected = [] *)
OpenMenu ==
    /\ menu.pc \in {"idle", "returned"}
    /\ menu.company < Len(SelectionCompanies)
    /\ menu' = [pc |-> "menu", company |-> menu.company + 1,
                last |-> [choice |-> "none", refused |-> FALSE]]
    /\ selected' = <<>>
    /\ UNCHANGED <<time_series_list, selected_kpis, beyond_selection>>

(* sorted(categories.keys()) *)
CategoryList ==
    LET cats == {time_series_list[i].category : i \in 1..Len(time_series_list)}
    IN  (IF "Income Statement" \in cats THEN <<"Income Statement">> ELSE <<>>)
        \o (IF "Per Share" \in cats THEN <<"Per Share">> ELSE <<>>)

InCategory(cat) == Filter(time_series_list, LAMBDA ts : ts.category = cat)

(* cat_list[int(cat_choice) - 1]: index -1 is the last category, any other *)
(* index outside the list raises IndexError                                *)
CategoryAt(number) ==
    CASE 1 <= number /\ number <= Len(CategoryList) -> CategoryList[number]
      [] number = 0 /\ CategoryList # <<>> -> CategoryList[Len(CategoryList)]
      [] OTHER -> "IndexError"

(* option 1, _view_by_category_interactive: 'back', a text that int()      *)
(* rejects, or a number; then the selection                                *)
ViewByCategory ==
    /\ menu.pc = "menu"
    /\ \/ Unchanged("1")
       \/ \E number \in 0..(Len(CategoryList) + 1) :
             IF CategoryAt(number) = "IndexError"
             THEN Unchanged("1")
             ELSE \E selection \in Selections(Len(InCategory(CategoryAt(number)))) :
                     Select("1", InCategory(CategoryAt(number)), selection)
    /\ UNCHANGED <<time_series_list, selected_kpis, beyond_selection>>

(* search_kpis: the series whose names, description or category hold the term *)
SearchKpis(term) ==
    Filter(time_series_list, LAMBDA ts : term \in ts.words \/ term = ts.category)

(* option 2, _search_interactive *)
SearchInteractive ==
    /\ menu.pc = "menu"
    /\ \/ Unchanged("2")
       \/ \E term \in {"revenue", "growth", "eps", "Per Share", "margin"} :
             IF SearchKpis(term) = <<>>
             THEN Unchanged("2")
             ELSE \E selection \in Selections(Len(SearchKpis(term))) :
                     Select("2", SearchKpis(term), selection)
    /\ UNCHANGED <<time_series_list, selected_kpis, beyond_selection>>

(* the matches of one category of common_patterns, matches[:5] *)
Recommendations(c) ==
    LET matches == Filter(time_series_list,
                          LAMBDA ts : ts.words \cap CommonPatterns[c].patterns # {})
    IN  SubSeq(matches, 1, Min(Len(matches), TopPerCategory))

(* all_recommended: the recommendations of every category, one after the   *)
(* other; a series that matches two categories is listed twice             *)
AllRecommended == Recommendations(1) \o Recommendations(2) \o Recommendations(3)

(* option 3, _show_recommended_kpis *)
ShowRecommended ==
    /\ menu.pc = "menu"
    /\ \E selection \in Selections(Len(AllRecommended)) :
          Select("3", AllRecommended, selection)
    /\ UNCHANGED <<time_series_list, selected_kpis, beyond_selection>>

(* the first series that has the name, as a list of at most one *)
FoundByName(name) ==
    LET hits == Filter(time_series_list, LAMBDA ts : ts.name = name)
    IN  SubSeq(hits, 1, Min(Len(hits), 1))

(* option 4, _add_by_name *)
AddByName ==
    /\ menu.pc = "menu"
    /\ \/ Unchanged("4")
       \/ \E name \in {"revenue", "revenue_growth", "eps", "ebitda"} :
             Select("4", FoundByName(name), [kind |-> "all", numbers |-> <<>>])
    /\ UNCHANGED <<time_series_list, selected_kpis, beyond_selection>>

(* option 5, _view_selected *)
ViewSelected ==
    /\ menu.pc = "menu"
    /\ Unchanged("5")
    /\ UNCHANGED <<time_series_list, selected_kpis, beyond_selection>>

(* self.selected_kpis[company_id] = selected *)
Saved(company_id) ==
    [c \in DOMAIN selected_kpis \cup {company_id} |->
        IF c = company_id THEN selected ELSE selected_kpis[c]]

(* option 6, 'Save and continue' *)
SaveAndContinue ==
    /\ menu.pc = "menu"
    /\ IF selected # <<>>
       THEN /\ selected_kpis' = Saved(SelectionCompanies[menu.company])
            /\ menu' = [menu EXCEPT !.pc = "returned",
                                    !.last = [choice |-> "6", refused |-> FALSE]]
       ELSE /\ menu' = [menu EXCEPT !.last = [choice |-> "6", refused |-> FALSE]]
            /\ UNCHANGED selected_kpis
    /\ UNCHANGED <<time_series_list, selected, beyond_selection>>

(* option 7, 'Cancel': Confirm.ask('Cancel without saving?') *)
Cancel ==
    /\ menu.pc = "menu"
    /\ \E confirmed \in BOOLEAN :
          menu' = [menu EXCEPT !.pc = IF confirmed THEN "returned" ELSE "menu",
                               !.last = [choice |-> "7", refused |-> FALSE]]
    /\ UNCHANGED <<time_series_list, selected, selected_kpis, beyond_selection>>

SelectionNext ==
    \/ OpenMenu
    \/ ViewByCategory
    \/ SearchInteractive
    \/ ShowRecommended
    \/ AddByName
    \/ ViewSelected
    \/ SaveAndContinue
    \/ Cancel

SelectionSpec == SelectionInit /\ [][SelectionNext]_vars

----------------------------------------------------------------------------
(* The dashboard pages pages/1_Select_Tickers.py and pages/3_By_Company.py *)
(* over one st.session_state. One action is one run of a page's script,    *)
(* with the session initialisation at its top and the rendering at its end *)

(* bounds: the tickers typed into one search, the time series of a model   *)
MaxSearched == 2
MaxMetrics == 1

Stored(v) == [t |-> "value", v |-> v]

(* the tickers a user types; the API knows no company for the last one     *)
SessionTickers == {"AAPL", "MSFT", "XXX"}

(* ticker_input, parsed into the list tickers (line 81)                             *)
TickerInputs == UNION {[1..n -> SessionTickers] : n \in 1..MaxSearched}

(* discovery.search_by_ticker tried over the five ticker types until one   *)
(* gives companies (lines 94-98 and 132-136)                               *)
SearchByTicker(ticker) ==
    CASE ticker = "AAPL" -> <<[company_id |-> 101, name |-> "Apple"]>>
      [] ticker = "MSFT" -> <<[company_id |-> 102, name |-> "Microsoft"]>>
      [] OTHER -> <<>>

(* client.get_latest_equity_model and client.list_time_series of a company *)
ModelVersion(company_id) == [company_id |-> company_id, name |-> "latest"]

ListTimeSeries(company_id) ==
    {[slug |-> k, company_id |-> company_id] : k \in 1..MaxMetrics}

SessionInit ==
    /\ ProcessorIdle
    /\ ClientIdle
    /\ RefreshIdle
    /\ DiscoveryIdle
    /\ SchedulerIdle
    /\ ExcelIdle
    /\ SelectionIdle
    /\ session_state = NoSession
    /\ rendered = NothingRendered

beyond_session == <<processor_vars, client_vars, refresh_vars, discovery_vars,
                    scheduler_vars, excel_vars, selection_vars>>

(* 1_Select_Tickers.py lines 22-35 *)
Initialised(s) ==
    IF s.app.t = "absent"
    THEN [s EXCEPT !.app = Stored("app"),
                   !.selected_ticker = NoneVal,
                   !.company_data = NoneVal,
                   !.selected_kpis = Stored({}),
                   !.fetched_data = NoneVal,
                   !.is_multi_company = Stored(FALSE),
                   !.companies_data = Stored({})]
    ELSE s

(* lines 88-126: found_companies is the dict of the tickers that gave a    *)
(* company, as its set of items                                            *)
MultiSearch(s, typed) ==
    LET found_companies ==
            {[ticker |-> typed[i], company |-> SearchByTicker(typed[i])[1]] :
                i \in {j \in 1..Len(typed) : Len(SearchByTicker(typed[j])) > 0}}
    IN  IF found_companies # {}
        THEN [state |-> [s EXCEPT !.companies_data = Stored(found_companies),
                                  !.selected_ticker = Stored(typed),
                                  !.selected_kpis = Stored({}),
                                  !.fetched_data = NoneVal],
              search |-> "found"]
        ELSE [state |-> [s EXCEPT !.selected_ticker = NoneVal,
                                  !.companies_data = Stored({}),
                                  !.selected_kpis = Stored({}),
                                  !.fetched_data = NoneVal],
              search |-> "not found"]

(* lines 141-149: the data of the previous company are cleared when the    *)
(* ticker differs from selected_ticker                                     *)
ClearPrevious(s, typed) ==
    IF s.selected_ticker.t = "value" /\ s.selected_ticker.v = typed
    THEN s
    ELSE [s EXCEPT !.selected_kpis = Stored({}),
                   !.fetched_data = NoneVal,
                   !.available_metrics = Absent,
                   !.model_version = Absent]

(* lines 129-168; reading selected_ticker of a session that never ran the  *)
(* initialisation of this page raises AttributeError                       *)
SingleSearch(s, typed) ==
    LET found == SearchByTicker(typed[1])
    IN  IF Len(found) > 0
        THEN IF s.selected_ticker.t = "absent"
             THEN [state |-> s, search |-> "AttributeError"]
             ELSE [state |-> [ClearPrevious(s, typed) EXCEPT
                                  !.selected_ticker = Stored(typed),
                                  !.company_data = Stored(found[1]),
                                  !.is_multi_company = Stored(FALSE)],
                   search |-> "found"]
        ELSE [state |-> [s EXCEPT !.selected_ticker = NoneVal,
                                  !.company_data = NoneVal],
              search |-> "not found"]

(* lines 79-168 *)
Search(s, typed) ==
    LET searching == [s EXCEPT !.is_multi_company = Stored(Len(typed) > 1)]
    IN  IF Len(typed) > 1
        THEN MultiSearch(searching, typed)
        ELSE SingleSearch(searching, typed)

(* lines 174-188: Current Selection *)
CurrentSelection(s) ==
    IF s.is_multi_company.t = "absent"
    THEN [selection |-> "AttributeError", shown |-> {}]
    ELSE IF s.is_multi_company.v /\ s.companies_data.t = "absent"
    THEN [selection |-> "AttributeError", shown |-> {}]
    ELSE IF s.is_multi_company.v /\ s.companies_data.v # {}
    THEN [selection |-> "multi",
          shown |-> {c.company.company_id : c \in s.companies_data.v}]
    ELSE IF s.company_data.t = "absent"
    THEN [selection |-> "AttributeError", shown |-> {}]
    ELSE IF s.company_data.t = "value"
    THEN [selection |-> "single", shown |-> {s.company_data.v.company_id}]
    ELSE [selection |-> "none", shown |-> {}]

(* what a run of the Select Tickers script leaves on the page *)
SelectTickers(s, message) ==
    LET current == IF message = "AttributeError"
                   THEN [selection |-> "AttributeError", shown |-> {}]
                   ELSE CurrentSelection(s)
    IN  [page |-> "select", search |-> message, selection |-> current.selection,
         shown |-> current.shown, data |-> 0]

(* the Select Tickers page is opened, or rerun without a search *)
OpenSelectTickers ==
    /\ session_state' = Initialised(session_state)
    /\ rendered' = SelectTickers(session_state', "none")
    /\ UNCHANGED beyond_session

(* Search Companies is pressed with a ticker_input that is not empty *)
SearchCompanies ==
    /\ rendered.page = "select"
    /\ \E typed \in TickerInputs :
          LET result == Search(Initialised(session_state), typed)
          IN  /\ session_state' = result.state
              /\ rendered' = SelectTickers(result.state, result.search)
    /\ UNCHANGED beyond_session

(* 3_By_Company.py lines 34-40 *)
ByCompanyInitialised(s) ==
    IF s.app.t = "absent" THEN [s EXCEPT !.app = Stored("app")] ELSE s

(* line 46 *)
NoSingleCompany(s) ==
    \/ s.is_multi_company.t = "value" /\ s.is_multi_company.v
    \/ s.company_data.t # "value"

(* what a run of the By Company script leaves on the page: lines 45-60 and *)
(* Display Data, line 281                                                  *)
ByCompany(s) ==
    IF NoSingleCompany(s)
    THEN [page |-> "company", search |-> "none", selection |-> "stopped",
          shown |-> {}, data |-> 0]
    ELSE [page |-> "company", search |-> "none", selection |-> "single",
          shown |-> {s.company_data.v.company_id},
          data |-> IF s.fetched_data.t = "value"
                   THEN s.fetched_data.v.company_id
                   ELSE 0]

(* the By Company page is opened, or rerun with no button pressed *)
OpenByCompany ==
    /\ session_state' = ByCompanyInitialised(session_state)
    /\ rendered' = ByCompany(session_state')
    /\ UNCHANGED beyond_session

(* the page was rendered past st.stop(), so its buttons can be pressed *)
ButtonsShown == rendered.page = "company" /\ rendered.selection = "single"

MetricsShown == ButtonsShown /\ session_state.available_metrics.t = "value"

(* lines 72-98: the API calls raise or give the series of the latest model *)
DiscoverMetrics ==
    /\ ButtonsShown
    /\ \E ok \in BOOLEAN :
          LET selected_company == session_state.company_data.v
              cleared == [session_state EXCEPT !.selected_kpis = Stored({}),
                                               !.fetched_data = NoneVal]
          IN  session_state' =
                  IF ok
                  THEN [cleared EXCEPT
                           !.available_metrics =
                               Stored(ListTimeSeries(selected_company.company_id)),
                           !.model_version =
                               Stored(ModelVersion(selected_company.company_id))]
                  ELSE cleared
    /\ rendered' = ByCompany(session_state')
    /\ UNCHANGED beyond_session

(* lines 121-131: the checkbox of a metric is ticked or cleared *)
TickMetric ==
    /\ MetricsShown
    /\ \E ts \in session_state.available_metrics.v :
          LET kpis == session_state.selected_kpis.v
          IN  session_state' =
                  [session_state EXCEPT
                      !.selected_kpis = Stored(IF ts \in kpis
                                               THEN kpis \ {ts}
                                               ELSE kpis \cup {ts})]
    /\ rendered' = ByCompany(session_state')
    /\ UNCHANGED beyond_session

(* lines 248-250 *)
ClearAllMetrics ==
    /\ MetricsShown
    /\ session_state.selected_kpis.v # {}
    /\ session_state' = [session_state EXCEPT !.selected_kpis = Stored({})]
    /\ rendered' = ByCompany(session_state')
    /\ UNCHANGED beyond_session

(* lines 253-278: the table fetched for company_data with the selected     *)
(* metrics and model_version, or an exception of the service               *)
FetchData ==
    /\ MetricsShown
    /\ session_state.selected_kpis.v # {}
    /\ \E ok \in BOOLEAN :
          session_state' =
              IF ok
              THEN [session_state EXCEPT
                       !.fetched_data =
                           Stored([company_id |-> session_state.company_data.v.company_id,
                                   kpis |-> session_state.selected_kpis.v,
                                   model_version |-> session_state.model_version.v])]
              ELSE session_state
    /\ rendered' = ByCompany(session_state')
    /\ UNCHANGED beyond_session

SessionNext ==
    \/ OpenSelectTickers
    \/ SearchCompanies
    \/ OpenByCompany
    \/ DiscoverMetrics
    \/ TickMetric
    \/ ClearAllMetrics
    \/ FetchData

SessionSpec == SessionInit /\ [][SessionNext]_vars

----------------------------------------------------------------------------
(* The state machine: one action per block of process_company_data and per *)
(* display stage                                                           *)

Init ==
    /\ InitWindow \/ InitGrowth \/ InitAnnual \/ InitForms
    /\ pc = "start"
    /\ all_data_points = <<>>
    /\ periods_df = <<>>
    /\ pivot_df = EmptyFrame
    /\ result_df = EmptyFrame
    /\ scaled_df = EmptyFrame
    /\ shown = NoDisplay
    /\ log = <<>>
    /\ long_data = <<>>
    /\ OutsideIdle

(* line 28: periods_df = self._create_periods_dataframe(api_data['periods']) *)
CreatePeriods ==
    /\ pc = "start"
    /\ api_data.periods # <<>>
    /\ periods_df' = CreatePeriodsDataframe(api_data.periods)
    /\ pc' = "historical"
    /\ UNCHANGED <<api_data, kpi_mappings, all_data_points, pivot_df, result_df,
                   scaled_df, shown>>
    /\ UNCHANGED <<log, long_data, outside>>

(* an empty frame has no 'start_date' column: sort_values raises KeyError *)
CreatePeriodsRaises ==
    /\ pc = "start"
    /\ api_data.periods = <<>>
    /\ pc' = "raised"
    /\ UNCHANGED <<api_data, kpi_mappings, all_data_points, periods_df, pivot_df,
                   result_df, scaled_df, shown>>
    /\ UNCHANGED <<log, long_data, outside>>

(* lines 39-60: the loop over api_data['historical_data'] *)
IngestHistorical ==
    /\ pc = "historical"
    /\ all_data_points' =
          Map(api_data.historical_data, LAMBDA dp : HistoricalPoint(dp, kpi_mappings))
    /\ pc' = "forecast"
    /\ UNCHANGED <<api_data, kpi_mappings, periods_df, pivot_df, result_df,
                   scaled_df, shown>>
    /\ UNCHANGED <<log, long_data, outside>>

(* lines 62-71: the loop over api_data['forecast_data'] *)
IngestForecast ==
    /\ pc = "forecast"
    /\ all_data_points' = all_data_points \o Map(api_data.forecast_data, ForecastPoint)
    /\ pc' = "pivot"
    /\ UNCHANGED <<api_data, kpi_mappings, periods_df, pivot_df, result_df,
                   scaled_df, shown>>
    /\ UNCHANGED <<log, long_data, outside>>

(* lines 73-82 *)
Pivot ==
    /\ pc = "pivot"
    /\ all_data_points # <<>>
    /\ pivot_df' = PivotTable(all_data_points)
    /\ pc' = "reorder"
    /\ UNCHANGED <<api_data, kpi_mappings, all_data_points, periods_df, result_df,
                   scaled_df, shown>>
    /\ UNCHANGED <<log, long_data, outside>>

(* pd.DataFrame([]) has no 'value' column: pivot_table raises KeyError *)
PivotRaises ==
    /\ pc = "pivot"
    /\ all_data_points = <<>>
    /\ pc' = "raised"
    /\ UNCHANGED <<api_data, kpi_mappings, all_data_points, periods_df, pivot_df,
                   result_df, scaled_df, shown>>
    /\ UNCHANGED <<log, long_data, outside>>

(* line 85 *)
Reorder ==
    /\ pc = "reorder"
    /\ pivot_df' = ReorderPeriods(pivot_df, periods_df)
    /\ pc' = "growth"
    /\ UNCHANGED <<api_data, kpi_mappings, all_data_points, periods_df, result_df,
                   scaled_df, shown>>
    /\ UNCHANGED <<log, long_data, outside>>

(* lines 88-90 *)
AddGrowth ==
    /\ pc = "growth"
    /\ result_df' = AddGrowthCalculations(pivot_df)
    /\ pc' = "done"
    /\ UNCHANGED <<api_data, kpi_mappings, all_data_points, periods_df, pivot_df,
                   scaled_df, shown>>
    /\ UNCHANGED <<log, long_data, outside>>

(* KPIService.scale_to_millions on the returned table *)
Scale ==
    /\ pc = "done"
    /\ scaled_df' = ScaleToMillions(result_df)
    /\ pc' = "scaled"
    /\ UNCHANGED <<api_data, kpi_mappings, all_data_points, periods_df, pivot_df,
                   result_df, shown>>
    /\ UNCHANGED <<log, long_data, outside>>

(* format_table_for_display on the returned table *)
Display ==
    /\ pc = "done"
    /\ shown' = FormatTableForDisplay(result_df)
    /\ pc' = "displayed"
    /\ UNCHANGED <<api_data, kpi_mappings, all_data_points, periods_df, pivot_df,
                   result_df, scaled_df>>
    /\ UNCHANGED <<log, long_data, outside>>

(* CSVExporter._export_company_data on the returned table *)
Export ==
    /\ pc = "done"
    /\ long_data' = ExportCompanyData(result_df)
    /\ pc' = "exported"
    /\ UNCHANGED <<api_data, kpi_mappings, all_data_points, periods_df, pivot_df,
                   result_df, scaled_df, shown, log, outside>>

Next ==
    \/ CreatePeriods
    \/ CreatePeriodsRaises
    \/ IngestHistorical
    \/ IngestForecast
    \/ Pivot
    \/ PivotRaises
    \/ Reorder
    \/ AddGrowth
    \/ Scale
    \/ Display
    \/ Export

Spec == Init /\ [][Next]_vars

----------------------------------------------------------------------------
(* Vocabulary of the properties                                            *)

(* process_company_data has returned result_df *)
Returned == pc \in {"done", "scaled", "displayed", "exported"}

(* the table has been reordered by _reorder_periods *)
Reordered == pc \in {"growth", "done", "scaled", "displayed", "exported"}

RawPoints == api_data.historical_data \o api_data.forecast_data

CatalogNames == {api_data.periods[i].name : i \in 1..Len(api_data.periods)}

(* the periods for which some observation carries a value that is stored *)
NamesWithData ==
    {all_data_points[i].period :
        i \in {j \in 1..Len(all_data_points) : all_data_points[j].value # Null}}

(* the row of result_df with the given metric key and variant, 0 if none *)
RowOf(key, label) == IndexOf(result_df.index, RowKey(key, label))

MetricKeys == {result_df.index[r].metric : r \in 1..Len(result_df.index)}

Columns == result_df.columns

ColSet == Range(result_df.columns)

(* the cell of a row variant of a metric under a column *)
At(key, label, name) == result_df.values[RowOf(key, label)][IndexOf(Columns, name)]

IsAnnual(name) == name.k = "FY"

IsQuarterly(name) == name.k = "Q"

(* name is newer than other, both of the same kind *)
Newer(name, other) ==
    /\ name.k = other.k
    /\ \/ name.y > other.y
       \/ name.y = other.y /\ name.q > other.q

(* C1: the columns of the returned table are the Annual columns, newest to *)
(* oldest, followed by the Quarterly columns, newest to oldest; periods    *)
(* {FY23, FY24, Q4-23, Q1-24} give [FY24, FY23, Q1-24, Q4-23].             *)
C1_ColumnOrder ==
    Returned =>
        /\ \A i \in 1..Len(Columns) : IsAnnual(Columns[i]) \/ IsQuarterly(Columns[i])
        /\ \A i, j \in 1..Len(Columns) :
              i < j =>
                 /\ ~(IsQuarterly(Columns[i]) /\ IsAnnual(Columns[j]))
                 /\ Columns[i].k = Columns[j].k => Newer(Columns[i], Columns[j])
        /\ (/\ CatalogNames = {FY(23), FY(24), Qtr(4, 23), Qtr(1, 24)}
            /\ NamesWithData = CatalogNames)
           => Columns = <<FY(24), FY(23), Qtr(1, 24), Qtr(4, 23)>>

C1_Witness ==
    /\ pc = "done"
    /\ CatalogNames = {FY(23), FY(24), Qtr(4, 23), Qtr(1, 24)}
    /\ api_data.periods[1].name = FY(23)
    /\ Columns = <<FY(24), FY(23), Qtr(1, 24), Qtr(4, 23)>>

(* C2: for adjacent Quarterly columns i (newer) and i+1 (older) of a       *)
(* metric row with both values non-null and value[i+1] # 0, the QoQ cell   *)
(* at i is (value[i] - value[i+1]) / abs(value[i+1]) * 100; the QoQ cells  *)
(* of every Annual column and of the oldest Quarterly column are null.     *)
C2_QoQGrowth ==
    Returned =>
        \A key \in MetricKeys :
            /\ RowOf(key, QoQLabel) # 0
            /\ \A i \in 1..Len(Columns) :
                  LET curr == At(key, BaseLabel, Columns[i])
                      qoq  == At(key, QoQLabel, Columns[i])
                  IN  /\ IsAnnual(Columns[i]) => qoq = Null
                      /\ (/\ IsQuarterly(Columns[i])
                          /\ \A j \in (i + 1)..Len(Columns) : ~IsQuarterly(Columns[j]))
                         => qoq = Null
                      /\ (/\ i < Len(Columns)
                          /\ IsQuarterly(Columns[i])
                          /\ IsQuarterly(Columns[i + 1]))
                         => LET prev == At(key, BaseLabel, Columns[i + 1])
                            IN  /\ (curr # Null /\ prev # Null /\ prev # Zero)
                                   => qoq = PctChange(curr, prev)
                                /\ (curr = N(110) /\ prev = N(100)) => qoq = N(10)
                                /\ (curr = N(90) /\ prev = N(-100)) => qoq = N(190)

C2_Witness ==
    /\ pc = "done"
    /\ KeyOf(Revenue) \in MetricKeys
    /\ Columns = <<FY(24), FY(23), FY(22), Qtr(1, 24), Qtr(4, 23), Qtr(1, 23)>>
    /\ At(KeyOf(Revenue), BaseLabel, Qtr(1, 24)) = N(110)
    /\ At(KeyOf(Revenue), BaseLabel, Qtr(4, 23)) = N(100)
    /\ At(KeyOf(Revenue), QoQLabel, Qtr(1, 24)) = N(10)
    /\ At(KeyOf(Revenue), QoQLabel, Qtr(1, 23)) = Null

(* the first observation of a metric and period whose stored value is not  *)
(* null (the one aggfunc='first' keeps), 0 if none                         *)
FirstIndex(key, name) ==
    LET hits == {i \in 1..Len(all_data_points) :
                    /\ MetricKey(all_data_points[i]) = key
                    /\ all_data_points[i].period = name
                    /\ all_data_points[i].value # Null}
    IN  IF hits = {} THEN 0 ELSE CHOOSE i \in hits : \A j \in hits : i <= j

(* the vendor value behind a cell of the table *)
RawOf(key, name) == Float(RawPoints[FirstIndex(key, name)].value)

(* the cell of key under name holds the historical vendor value x *)
HistoricalRaw(key, name, x) ==
    /\ FirstIndex(key, name) # 0
    /\ ~all_data_points[FirstIndex(key, name)].is_forecast
    /\ RawOf(key, name) = x

(* the same quarter of the previous year *)
YearBefore(name) == Qtr(name.q, name.y - 1)

(* C3: the YoY cell of a Quarterly column compares it with the column of   *)
(* the same quarter of the previous year, under the null/zero guard, also  *)
(* when quarters in between are absent; {Q1-24: 110, Q4-23: 100,           *)
(* Q1-23: 90} yields QoQGrowth[Q1-24] = 10.0 and YoYGrowth[Q1-24] = 22.22. *)
C3_SameQuarterYoY ==
    Returned =>
        \A key \in MetricKeys :
            /\ \A name \in ColSet :
                  (IsQuarterly(name) /\ YearBefore(name) \in ColSet)
                  => At(key, YoYLabel, name) =
                        GrowthCell(At(key, BaseLabel, name), At(key, BaseLabel, YearBefore(name)))
            /\ (/\ {name \in ColSet : IsQuarterly(name)} = {Qtr(1, 24), Qtr(4, 23), Qtr(1, 23)}
                /\ At(key, BaseLabel, Qtr(1, 24)) = N(110)
                /\ At(key, BaseLabel, Qtr(4, 23)) = N(100)
                /\ At(key, BaseLabel, Qtr(1, 23)) = N(90))
               => /\ At(key, QoQLabel, Qtr(1, 24)) = N(10)
                  /\ At(key, YoYLabel, Qtr(1, 24)) # Null
                  /\ Round2(At(key, YoYLabel, Qtr(1, 24))) = Norm(2222, 1, -2)

(* C4: for an Annual column i with an older Annual column i+1 the YoY cell *)
(* is (value[i] - value[i+1]) / abs(value[i+1]) * 100 on the stored Base   *)
(* values; Revenue {FY24: 1,200,000, FY23: 1,000,000} gives the Base row   *)
(* {FY24: 1.2, FY23: 1.0} and YoYGrowth[FY24] = 20.0.                      *)
C4_AnnualYoY ==
    Returned =>
        \A key \in MetricKeys :
            /\ RowOf(key, YoYLabel) # 0
            /\ \A i \in 1..(Len(Columns) - 1) :
                  (IsAnnual(Columns[i]) /\ IsAnnual(Columns[i + 1]))
                  => LET curr == At(key, BaseLabel, Columns[i])
                         prev == At(key, BaseLabel, Columns[i + 1])
                         yoy  == At(key, YoYLabel, Columns[i])
                     IN  /\ (curr # Null /\ prev # Null /\ prev # Zero)
                            => yoy = PctChange(curr, prev)
                         /\ (/\ Columns[i] = FY(24)
                             /\ Columns[i + 1] = FY(23)
                             /\ HistoricalRaw(key, FY(24), N(1200000))
                             /\ HistoricalRaw(key, FY(23), N(1000000)))
                            => /\ curr = Norm(12, 1, -1)
                               /\ prev = N(1)
                               /\ yoy = N(20)

C4_Witness ==
    /\ pc = "done"
    /\ KeyOf(Revenue) \in MetricKeys
    /\ {FY(24), FY(23)} \subseteq ColSet
    /\ HistoricalRaw(KeyOf(Revenue), FY(24), N(1200000))
    /\ HistoricalRaw(KeyOf(Revenue), FY(23), N(1000000))
    /\ At(KeyOf(Revenue), BaseLabel, FY(24)) = Norm(12, 1, -1)
    /\ At(KeyOf(Revenue), YoYLabel, FY(24)) = N(20)

(* the column a growth cell of kind label under column i is compared with: *)
(* the next column for QoQ and Annual YoY, four Quarterly columns on for   *)
(* Quarterly YoY; 0 if there is none                                       *)
PriorColumn(label, i) ==
    IF label = QoQLabel
    THEN IF i < Len(Columns) /\ IsQuarterly(Columns[i]) /\ IsQuarterly(Columns[i + 1])
         THEN i + 1 ELSE 0
    ELSE IF IsAnnual(Columns[i])
    THEN IF i < Len(Columns) /\ IsAnnual(Columns[i + 1]) THEN i + 1 ELSE 0
    ELSE IF /\ IsQuarterly(Columns[i])
            /\ i + YoYQuarterLag <= Len(Columns)
            /\ IsQuarterly(Columns[i + YoYQuarterLag])
    THEN i + YoYQuarterLag ELSE 0

(* C5: in every growth cell, if the current or the prior-period value is   *)
(* null or the prior-period value is zero the cell is null; the growth     *)
(* computation never raises and never stores zero in such a cell.          *)
C5_NullPropagation ==
    /\ pc = "raised" => pivot_df = EmptyFrame /\ result_df = EmptyFrame
    /\ Returned =>
          \A key \in MetricKeys : \A label \in {QoQLabel, YoYLabel} :
              /\ RowOf(key, label) # 0
              /\ \A i \in 1..Len(Columns) :
                    LET p    == PriorColumn(label, i)
                        curr == At(key, BaseLabel, Columns[i])
                    IN  \/ /\ p # 0
                           /\ curr # Null
                           /\ At(key, BaseLabel, Columns[p]) \notin {Null, Zero}
                        \/ At(key, label, Columns[i]) = Null

C5_Witness ==
    /\ pc = "done"
    /\ KeyOf(Revenue) \in MetricKeys
    /\ {Qtr(1, 24), Qtr(4, 23), Qtr(3, 23), Qtr(1, 23)} \subseteq ColSet
    /\ At(KeyOf(Revenue), BaseLabel, Qtr(1, 24)) = N(110)
    /\ At(KeyOf(Revenue), BaseLabel, Qtr(4, 23)) = Zero
    /\ At(KeyOf(Revenue), QoQLabel, Qtr(1, 24)) = Null
    /\ At(KeyOf(Revenue), BaseLabel, Qtr(3, 23)) = Null
    /\ At(KeyOf(Revenue), QoQLabel, Qtr(4, 23)) = Null
    /\ At(KeyOf(Revenue), BaseLabel, Qtr(1, 23)) = Zero
    /\ At(KeyOf(Revenue), YoYLabel, Qtr(1, 24)) = Null

BaseRowsOf(df) == {r \in 1..Len(df.index) : df.index[r].variant = BaseLabel}

(* the observations that reach the table: the first non-null one of a      *)
(* metric and period that is a column                                      *)
StoredPoints ==
    {i \in 1..Len(all_data_points) :
        /\ all_data_points[i].period \in ColSet
        /\ FirstIndex(MetricKey(all_data_points[i]), all_data_points[i].period) = i}

(* C6: at ingestion a value v with abs(v) >= 1,000,000 is stored as        *)
(* v / 1,000,000 and its metric row is marked with the millions flag, a    *)
(* value with abs(v) < 1,000,000 is stored unchanged with the flag unset:  *)
(* 1,000,000 becomes 1.0 (flag set), 999,999 stays 999,999 (flag unset).   *)
C6_UnitScaling ==
    pc = "displayed" =>
        \A i \in StoredPoints :
            LET pt   == all_data_points[i]
                raw  == Float(RawPoints[i].value)
                row  == RowOf(MetricKey(pt), BaseLabel)
                cell == At(MetricKey(pt), BaseLabel, pt.period)
            IN  IF AbsGe(raw, Million)
                THEN cell = DivInt(raw, Million) /\ shown.mm_suffix[row]
                ELSE cell = raw
                     /\ (\A j \in StoredPoints :
                            MetricKey(all_data_points[j]) = MetricKey(pt)
                            => ~AbsGe(Float(RawPoints[j].value), Million))
                        => ~shown.mm_suffix[row]

(* C7: a value is divided by 1,000,000 at most once on the path from the   *)
(* vendor response to the exported or displayed table: at ingestion only,  *)
(* no later stage (scale_to_millions, format_value with needs_mm,          *)
(* add_mm_suffix_to_index) divides or re-qualifies a scaled value.         *)
C7_ScaledOnce ==
    /\ pc = "displayed" =>
          \A i \in StoredPoints :
              LET pt  == all_data_points[i]
                  raw == Float(RawPoints[i].value)
                  row == RowOf(MetricKey(pt), BaseLabel)
                  out == shown.values[row][IndexOf(Columns, pt.period)].value
              IN  /\ out \in {raw, DivInt(raw, Million)}
                  /\ pt.value # raw => out = pt.value /\ ~shown.mm_suffix[row]
    /\ pc = "scaled" =>
          \A i \in StoredPoints :
              LET pt  == all_data_points[i]
                  raw == Float(RawPoints[i].value)
                  row == RowOf(MetricKey(pt), BaseLabel)
                  out == scaled_df.values[row][IndexOf(Columns, pt.period)]
              IN  /\ out \in {raw, DivInt(raw, Million)}
                  /\ pt.value # raw => out = pt.value

RequestedNames == {kpi_mappings[i].time_series_name : i \in 1..Len(kpi_mappings)}

(* C8: every requested metric appears in the returned table: one with zero *)
(* observations (or only null values) still has a Base row of nulls, and   *)
(* building the table does not fail when no requested metric has any       *)
(* observation.                                                            *)
C8_RequestedRows ==
    /\ Returned =>
          \A name \in RequestedNames :
              \E r \in BaseRowsOf(result_df) : result_df.index[r].metric.time_series = name
    /\ ~(pc = "raised" /\ api_data.periods # <<>>)

(* C9: in the table returned by _add_growth_calculations every metric key  *)
(* has exactly three rows, contiguous and in the order [Base, QoQ growth,  *)
(* YoY growth]; both growth rows are emitted also when all their cells are *)
(* null.                                                                   *)
C9_ThreeRows ==
    Returned =>
        /\ Len(result_df.index) = 3 * Len(pivot_df.index)
        /\ Len(result_df.values) = Len(result_df.index)
        /\ \A k \in 1..Len(pivot_df.index) :
              /\ result_df.index[3 * k - 2] = RowKey(pivot_df.index[k], BaseLabel)
              /\ result_df.index[3 * k - 1] = RowKey(pivot_df.index[k], QoQLabel)
              /\ result_df.index[3 * k] = RowKey(pivot_df.index[k], YoYLabel)
              /\ result_df.values[3 * k - 2] = pivot_df.values[k]
        /\ \A key \in MetricKeys :
              Cardinality({r \in 1..Len(result_df.index) : result_df.index[r].metric = key}) = 3

AllNull(row) == \A c \in 1..Len(row) : row[c] = Null

C9_Witness ==
    /\ pc = "done"
    /\ Len(pivot_df.index) = 2
    /\ Len(Columns) >= 2
    /\ result_df.index[2] = RowKey(KeyOf(EPS), QoQLabel)
    /\ result_df.index[6] = RowKey(KeyOf(Revenue), YoYLabel)
    /\ AllNull(result_df.values[6])
    /\ ~AllNull(result_df.values[3])

Window(name) == IF IsAnnual(name) THEN AnnualWindow ELSE QuarterlyWindow

Once(name) == Cardinality({i \in 1..Len(Columns) : Columns[i] = name}) = 1

(* C10 as stated: at most 5 Annual and 12 Quarterly columns, the most      *)
(* recent periods of each kind that have data: a period with data is left  *)
(* out only when 5 (12) newer periods of its kind are kept; every kept     *)
(* column is a catalog period and appears once.                            *)
C10_WindowOverData ==
    (Returned /\ result_df.index # <<>>) =>
        /\ Cardinality({c \in ColSet : IsAnnual(c)}) <= AnnualWindow
        /\ Cardinality({c \in ColSet : IsQuarterly(c)}) <= QuarterlyWindow
        /\ \A c \in ColSet : c \in CatalogNames /\ Once(c)
        /\ \A name \in NamesWithData \cap CatalogNames :
              (name \notin ColSet /\ (IsAnnual(name) \/ IsQuarterly(name)))
              => Cardinality({c \in ColSet : Newer(c, name)}) = Window(name)

(* the catalog periods of the kind of name that are newer than it *)
NewerInCatalog(name) == {c \in CatalogNames : Newer(c, name)}

(* C10 amended: at most 5 Annual and 12 Quarterly columns; the columns are *)
(* the periods with data among the 5 (12) most recent catalog periods of   *)
(* each kind, so a catalog period with data is left out only when 5 (12)   *)
(* newer periods of its kind are in the catalog, with or without data;     *)
(* every kept column is a catalog period and appears once.                 *)
C10_WindowOverCatalog ==
    (Returned /\ result_df.index # <<>>) =>
        /\ Cardinality({c \in ColSet : IsAnnual(c)}) <= AnnualWindow
        /\ Cardinality({c \in ColSet : IsQuarterly(c)}) <= QuarterlyWindow
        /\ \A c \in ColSet : c \in CatalogNames /\ Once(c)
        /\ \A name \in CatalogNames :
              (IsAnnual(name) \/ IsQuarterly(name))
              => (name \in ColSet <=>
                    /\ name \in NamesWithData
                    /\ Cardinality(NewerInCatalog(name)) < Window(name))

C10_Witness ==
    /\ pc = "done"
    /\ Cardinality({c \in CatalogNames : IsAnnual(c)}) = AnnualWindow + 1
    /\ Cardinality({c \in CatalogNames : IsQuarterly(c)}) = QuarterlyWindow + 1
    /\ FY(NewestYear) \notin NamesWithData
    /\ FY(NewestYear - AnnualWindow) \in NamesWithData
    /\ FY(NewestYear - AnnualWindow) \notin ColSet
    /\ Cardinality({c \in ColSet : IsAnnual(c)}) = AnnualWindow - 1
    /\ Cardinality({c \in ColSet : IsQuarterly(c)}) = QuarterlyWindow - 1
    /\ FY(NewestYear + 1) \in NamesWithData

----------------------------------------------------------------------------
(* Duplicate observations                                                  *)

(* the vendor value is a number or a non-empty string *)
HasValue(val) == val.t \in {"str", "num"} /\ val.v # Null

(* the observations of a metric and period that carry a value, in input    *)
(* order (historical_data, then forecast_data)                             *)
Duplicates(key, name) ==
    {i \in 1..Len(all_data_points) :
        /\ MetricKey(all_data_points[i]) = key
        /\ all_data_points[i].period = name
        /\ HasValue(RawPoints[i].value)}

Earliest(S) == CHOOSE i \in S : \A j \in S : i <= j

(* C11: when several observations share the metric key and the period, the *)
(* cell of the table holds the value stored for the first of them in input *)
(* order, whatever the later ones hold (an observation without a value,    *)
(* null or the empty string, is not counted as one of them).               *)
C11_FirstWins ==
    Returned =>
        \A key \in MetricKeys :
            \A name \in ColSet :
                Duplicates(key, name) # {}
                => At(key, BaseLabel, name) =
                      all_data_points[Earliest(Duplicates(key, name))].value

----------------------------------------------------------------------------
(* Periods of another shape                                                *)

(* the name is 'FY' + two-digit year or 'Q' + quarter 1-4 + '-' + year *)
Recognized(name) ==
    \/ name.k = "FY" /\ name.y \in 0..99
    \/ name.k = "Q" /\ name.q \in 1..4 /\ name.y \in 0..99

(* the periods of another shape that some observation refers to *)
UnrecognizedObserved ==
    {all_data_points[i].period :
        i \in {j \in 1..Len(all_data_points) : ~Recognized(all_data_points[j].period)}}

(* C12: a period whose name has neither the annual nor the quarterly shape *)
(* is never silently placed: its observations are excluded from the table, *)
(* it is no column (no position, no growth comparison), and an error/log   *)
(* record is produced for it.                                              *)
C12_RejectedPeriods ==
    Returned =>
        \A name \in UnrecognizedObserved :
            /\ name \notin ColSet
            /\ \E j \in 1..Len(log) : log[j].period = name

----------------------------------------------------------------------------
(* CSV export                                                              *)

Variants == {BaseLabel, QoQLabel, YoYLabel}

(* the rows exported for a metric variant under a period with the given    *)
(* metric_type and units                                                   *)
Exported(key, name, type, units) ==
    {j \in 1..Len(long_data) :
        /\ long_data[j].kpi_code = key.time_series
        /\ long_data[j].kpi_description = key.time_series_desc
        /\ long_data[j].period = name
        /\ long_data[j].metric_type = type
        /\ long_data[j].units = units}

NonNullCells ==
    {c \in MetricKeys \X Variants \X ColSet : At(c[1], c[2], c[3]) # Null}

(* C19: the per-company CSV export holds exactly one row for every         *)
(* (metric, period, variant) cell of the table whose value is non-null: a  *)
(* Base row is exported with metric_type 'Value' and the metric's own      *)
(* units, a growth row with its variant as metric_type and units           *)
(* 'Percentage'.                                                           *)
C19_CsvExport ==
    pc = "exported" =>
        /\ Len(long_data) = Cardinality(NonNullCells)
        /\ \A c \in NonNullCells :
              LET rows == IF c[2] = BaseLabel
                          THEN Exported(c[1], c[3], ValueType, c[1].units)
                          ELSE Exported(c[1], c[3], c[2], Percentage)
              IN  /\ Cardinality(rows) = 1
                  /\ \A j \in rows : long_data[j].value = At(c[1], c[2], c[3])

----------------------------------------------------------------------------
(* The vendor client                                                       *)

Sent == 1..Len(sent)

(* the requests a CanalystClient sent *)
ClientSent == {i \in Sent : sent[i].via \in {"_make_request", "session"}}

(* a page request that was answered with an error *)
PageFailed == \E i \in Sent : sent[i].target[1] \in {"pages", "single"} /\ sent[i].status # "ok"

(* C13: a paginated client call (list_time_series,                         *)
(* get_historical_data_points, get_forecast_data_points,                   *)
(* get_historical_periods) returns the concatenation, in page order, of    *)
(* the results of every page reached by following 'next' from the first    *)
(* page to the page without 'next': no record is lost or duplicated.       *)
C13_Pagination ==
    (call.pc = "returned" /\ ~PageFailed) => call.all_results = AllPages(vendor.pages)

(* C14: two consecutive outbound requests of one CanalystClient, page      *)
(* requests and retry attempts included, are at least                      *)
(* 1 / requests_per_second seconds apart.                                  *)
C14_RequestSpacing ==
    \A i \in ClientSent :
        (i + 1) \in ClientSent => sent[i + 1].time - sent[i].time >= MinInterval

(* the last attempt made for the request sent[i] *)
LastAttempt(i) ==
    ~\E j \in Sent : j > i /\ sent[j].target = sent[i].target

Finished == call.pc \in {"returned", "raised"}

(* C15: for every vendor request, first pages and following pages alike, a *)
(* transient failure is retried for at most 3 attempts in total, and when  *)
(* the last attempt fails the failure is raised to the caller, never       *)
(* turned into an empty or truncated result.                               *)
C15_BoundedRetry ==
    /\ \A i \in ClientSent : sent[i].attempt <= MaxAttempts
    /\ Finished =>
          \A i \in ClientSent :
              (sent[i].status # "ok" /\ LastAttempt(i)) => call.pc = "raised"

(* C17: when the credentials are missing the construction of the client or *)
(* application fails with ValueError before any request is sent: no        *)
(* request goes out without credentials.                                   *)
C17_NoRequestWithoutToken ==
    /\ ~environ.token => client \in {"unbuilt", "ValueError"}
    /\ \A i \in Sent : sent[i].authorized

(* the seconds a 429 response asks the client to wait *)
RetryAfterOf(header) ==
    IF header.form = "absent" THEN DefaultRetryAfter ELSE header.seconds

(* C18: after a 429 response the next attempt of that request is sent at   *)
(* least the seconds of the Retry-After header later, 60 seconds when the  *)
(* header is absent.                                                       *)
C18_RetryAfter ==
    \A i \in Sent :
        (/\ sent[i].status = "429"
         /\ sent[i].header.form \in {"absent", "seconds"}
         /\ (i + 1) \in Sent
         /\ sent[i + 1].target = sent[i].target)
        => sent[i + 1].time - sent[i].time >= Seconds(RetryAfterOf(sent[i].header))

C18_Witness ==
    /\ Len(sent) >= 3
    /\ sent[2].status = "429" /\ sent[2].header = SecondsHeader(5) /\ sent[2].attempt = 1
    /\ sent[3].target = sent[2].target /\ sent[3].attempt = 2
    /\ sent[3].time - sent[2].time = Seconds(5) + Backoff(1) + vendor.latency

----------------------------------------------------------------------------
(* The refresh batch                                                       *)

(* the entries of the error list for a company *)
Entries(c) == {j \in 1..Len(errors) : errors[j].ticker = c.search_ticker}

(* the loop over the companies is over *)
LoopEnded == step.pc \in {"export", "done", "raised"}

(* the loop is inside the try block of a company *)
InLoop == step.pc \in {"model", "history", "periods", "process"}

(* no other row of the batch is a ticker of the same company *)
Alone(i) ==
    \A j \in 1..Len(companies) :
        companies[j].company_id = companies[i].company_id => j = i

(* C16: in refresh_kpis an exception raised while one company is processed *)
(* adds exactly one entry for that company to the error list, and every    *)
(* later company is still processed: each company the loop has passed has  *)
(* its table or exactly one error entry (not both, unless the table is     *)
(* that of another ticker of the same company), the loop ends only after   *)
(* the last company, and inside the loop the next step is always possible. *)
C16_BatchIsolation ==
    step.pc # "idle" =>
        /\ \A i \in 1..Len(companies) :
              IF i < step.position
              THEN /\ Cardinality(Entries(companies[i])) <= 1
                   /\ Entries(companies[i]) = {}
                      => companies[i].company_id \in all_company_data
                   /\ Alone(i) =>
                         (companies[i].company_id \in all_company_data)
                         # (Cardinality(Entries(companies[i])) = 1)
              ELSE /\ Entries(companies[i]) = {}
                   /\ Alone(i) => companies[i].company_id \notin all_company_data
        /\ LoopEnded => step.position = Len(companies) + 1
        /\ InLoop => /\ step.position \in 1..Len(companies)
                     /\ ENABLED RefreshNext

C16_Witness ==
    /\ step.pc = "done"
    /\ Len(companies) = 3
    /\ errors = <<[ticker |-> 2, error |-> "get_historical_data_points"]>>
    /\ all_company_data = {101, 103}

----------------------------------------------------------------------------
(* Ticker discovery                                                        *)

InResults(t) == \E j \in 1..Len(results) : results[j].search_ticker = t

InNotFound(t) == \E j \in 1..Len(not_found) : not_found[j] = t

(* C20: in bulk_search_tickers every input ticker ends in exactly one of   *)
(* the two outputs, the results table or the not_found list, and a ticker  *)
(* that is not found, or whose lookup fails, does not stop the lookup of   *)
(* the tickers after it.                                                   *)
C20_EveryTickerAnswered ==
    search.pc \in {"returned", "raised"} =>
        \A i \in 1..Len(ticker_list) :
            InResults(ticker_list[i]) # InNotFound(ticker_list[i])

----------------------------------------------------------------------------
(* The keys of the growth rows                                             *)

(* the labels under which the test and the workbook address the growth rows *)
QoQPercent == "QoQ %"

YoYPercent == "YoY %"

(* C22: in the table returned by _add_growth_calculations the QoQ row of a *)
(* metric (code, description, units) is addressed by the key (code,        *)
(* description, units, 'QoQ %') and its YoY row by (code, description,     *)
(* units, 'YoY %').                                                        *)
C22_GrowthRowKeys ==
    Returned =>
        \A key \in MetricKeys :
            /\ RowOf(key, QoQPercent) # 0
            /\ RowOf(key, YoYPercent) # 0

----------------------------------------------------------------------------
(* The scale of a metric row                                               *)

(* the stored observations of a metric row *)
StoredOf(key) == {i \in StoredPoints : MetricKey(all_data_points[i]) = key}

(* the stored value is the vendor value divided by 1,000,000 *)
DividedByMillion(i) ==
    all_data_points[i].value = DivInt(Float(RawPoints[i].value), Million)

(* the stored value is the vendor value *)
StoredAsSent(i) == all_data_points[i].value = Float(RawPoints[i].value)

(* C23: all values of one Base row are in the same scale: after ingestion  *)
(* either every value of the metric row was divided by 1,000,000 or none   *)
(* was, so that every growth cell (QoQ of adjacent Quarterly columns, YoY  *)
(* of adjacent Annual columns) equals the percentage change of the         *)
(* corresponding raw vendor values.                                        *)
C23_UniformScale ==
    Returned =>
        \A key \in MetricKeys :
            /\ \/ \A i \in StoredOf(key) : DividedByMillion(i)
               \/ \A i \in StoredOf(key) : StoredAsSent(i)
            /\ \A c \in 1..(Len(Columns) - 1) :
                  LET curr == Columns[c]
                      prev == Columns[c + 1]
                  IN  /\ (IsQuarterly(curr) /\ IsQuarterly(prev)
                          /\ At(key, QoQLabel, curr) # Null)
                         => At(key, QoQLabel, curr) =
                               PctChange(RawOf(key, curr), RawOf(key, prev))
                      /\ (IsAnnual(curr) /\ IsAnnual(prev)
                          /\ At(key, YoYLabel, curr) # Null)
                         => At(key, YoYLabel, curr) =
                               PctChange(RawOf(key, curr), RawOf(key, prev))

----------------------------------------------------------------------------
(* Zero and absent values                                                  *)

(* the vendor sent zero, as a JSON number or as a string *)
IsZeroValue(val) == val.t \in {"str", "num"} /\ val.v = Zero

(* the vendor sent no value: JSON null or the empty string *)
IsAbsentValue(val) == val = NoneVal \/ val = StrVal(Null)

(* C24: an observation whose vendor value is zero is stored in the table   *)
(* as 0, not as null: only an absent value becomes a null cell, and the    *)
(* zero stays visible in the Base row of its metric under its period.      *)
C24_ZeroIsStored ==
    Returned =>
        \A i \in 1..Len(all_data_points) :
            LET pt  == all_data_points[i]
                raw == RawPoints[i].value
            IN  /\ IsZeroValue(raw) => pt.value = Zero
                /\ pt.value = Null => IsAbsentValue(raw)
                /\ (/\ IsZeroValue(raw)
                    /\ pt.period \in ColSet
                    /\ MetricKey(pt) \in MetricKeys
                    /\ Earliest(Duplicates(MetricKey(pt), pt.period)) = i)
                   => At(MetricKey(pt), BaseLabel, pt.period) = Zero

----------------------------------------------------------------------------
(* The account of a refresh                                                *)

(* C25: when refresh_kpis has finished its company loop, every selected    *)
(* company is accounted for exactly once: it is either a key of the result *)
(* map or an entry of the error list, never both and never neither, so     *)
(* processed count + error count = number of selected companies.           *)
C25_AccountedOnce ==
    LoopEnded =>
        /\ \A i \in 1..Len(companies) :
              /\ (companies[i].company_id \in all_company_data)
                 # (Entries(companies[i]) # {})
              /\ Cardinality(Entries(companies[i])) <= 1
        /\ Cardinality(all_company_data) + Len(errors) = Len(companies)

(* refresh_kpis has returned or raised *)
RefreshOver == step.pc \in {"done", "raised"}

(* C26: whenever at least one company failed during refresh_kpis, the      *)
(* error file with one row per failed company has been written when        *)
(* refresh_kpis returns or raises, also when the Excel or CSV export of    *)
(* the successful companies fails.                                         *)
C26_ErrorFileWritten ==
    (RefreshOver /\ errors # <<>>) => error_csv = errors

----------------------------------------------------------------------------
(* The schedulers                                                          *)

(* the program is in its polling loop *)
InPollingLoop == scheduler.pc \in {"polling", "due", "sleeping", "refreshing"}

(* C21: the schedule command builds the scheduler, registers the refresh   *)
(* as a daily job at the configured time (default 06:00) and enters the    *)
(* polling loop, in which the refresh is run each time the job is due.     *)
C21_ScheduleCommand ==
    scheduler.entry = "schedule" =>
        /\ InPollingLoop
        /\ Len(jobs) = 1
        /\ jobs[1].unit = "day"
        /\ jobs[1].at \in ConfiguredTimes

(* the last refresh raised (or exited with a code other than 0) in a       *)
(* program that polls                                                      *)
RefreshRaised == scheduler.last = "raised" /\ scheduler.loop

(* C27: a refresh that raises inside KPIScheduler.run_refresh (or exits    *)
(* non-zero in the script schedulers) is logged and does not stop the      *)
(* scheduler: the program stays in its polling loop with the job           *)
(* registered until the user stops it, and the next due refresh is started. *)
C27_FailureKeepsLoop ==
    /\ [](scheduler.last = "raised"
          => /\ scheduler.logged \in {"refresh failed", "stopped by user"}
             /\ scheduler.loop => /\ InPollingLoop \/ scheduler.pc = "stopped"
                                  /\ Len(jobs) = 1)
    /\ (RefreshRaised ~> (scheduler.pc \in {"refreshing", "stopped"}))

C27_Witness ==
    /\ scheduler.entry = "KPIScheduler"
    /\ scheduler.last = "raised"
    /\ scheduler.pc = "refreshing"
    /\ scheduler.job = 1

----------------------------------------------------------------------------
(* The workbook of to_excel_multi_sheets                                   *)

(* the entries of data_dict that hold a non-empty frame that can be written *)
Writable == {i \in 1..Len(data_dict) : data_dict[i].df = "frame"}

ValidTitle(title) ==
    /\ Len(title) <= SheetNameLimit
    /\ \A k \in 1..Len(title) : title[k] \notin InvalidCharacters

(* C28: to_excel_multi_sheets raises ValueError for an empty input map,    *)
(* and otherwise always returns a workbook with at least one sheet: one    *)
(* sheet per non-empty DataFrame that could be written, each under a       *)
(* distinct name of at most 31 characters without the characters           *)
(* / \ ? * [ ] :, or a single 'Info' sheet when none was written.          *)
C28_Workbook ==
    /\ export.pc # "idle" => (export.pc = "raised" <=> data_dict = <<>>)
    /\ export.pc = "returned" =>
          /\ Len(book) >= 1
          /\ \A k \in 1..Len(book) : ValidTitle(book[k].title)
          /\ \A k, l \in 1..Len(book) : book[k].title = book[l].title => k = l
          /\ IF Writable = {}
             THEN book = <<InfoSheet>>
             ELSE /\ Len(book) = Cardinality(Writable)
                  /\ \A i \in Writable :
                        \E k \in 1..Len(book) :
                            /\ book[k].title = SheetName(data_dict[i].name)
                            /\ book[k].frames = <<i>>

----------------------------------------------------------------------------
(* The selection of KPIs                                                   *)

(* no two KPIs of the list have the same slug *)
DistinctSlugs(sel) ==
    \A k, l \in 1..Len(sel) : sel[k].slug = sel[l].slug => k = l

(* C29: during interactive_selection, after any sequence of menu actions   *)
(* the selected list never holds two KPIs with the same slug;              *)
(* selected_kpis[company_id] is written only by 'Save and continue' with a *)
(* non-empty selection, and 'Cancel' (or saving an empty selection) leaves *)
(* selected_kpis unchanged.                                                *)
C29_Selection ==
    /\ [](DistinctSlugs(selected))
    /\ [][/\ selected_kpis' # selected_kpis
             => /\ menu'.last.choice = "6"
                /\ selected # <<>>
                /\ selected_kpis' = Saved(SelectionCompanies[menu.company])
          /\ (menu'.last.choice = "7" \/ selected = <<>>)
             => selected_kpis' = selected_kpis]_vars

C29_Witness ==
    /\ menu.pc = "menu"
    /\ menu.last = [choice |-> "3", refused |-> TRUE]
    /\ Len(selected) = 2

(* the companies the session holds as selected: those of companies_data in *)
(* multi-company mode, else the one of company_data                        *)
SelectedCompanies(s) ==
    IF s.is_multi_company.t = "value" /\ s.is_multi_company.v
    THEN IF s.companies_data.t = "value"
         THEN {c.company.company_id : c \in s.companies_data.v}
         ELSE {}
    ELSE IF s.company_data.t = "value"
         THEN {s.company_data.v.company_id}
         ELSE {}

(* the companies whose data the session holds *)
DataOwners(s) ==
    (IF s.fetched_data.t = "value" THEN {s.fetched_data.v.company_id} ELSE {})
    \cup (IF s.selected_kpis.t = "value"
          THEN {ts.company_id : ts \in s.selected_kpis.v}
          ELSE {})
    \cup (IF s.available_metrics.t = "value"
          THEN {ts.company_id : ts \in s.available_metrics.v}
          ELSE {})
    \cup (IF s.model_version.t = "value" THEN {s.model_version.v.company_id} ELSE {})

FailedSearchShown == rendered.page = "select" /\ rendered.search = "not found"

(* C30: the session reflects the most recent search only: after a failed   *)
(* single or multi-company search the page shows no company as selected,   *)
(* and fetched_data, selected_kpis, available_metrics and model_version,   *)
(* when present, are those of a currently selected company                 *)
C30_LatestSearchOnly ==
    /\ FailedSearchShown => rendered.shown = {}
    /\ DataOwners(session_state) \subseteq SelectedCompanies(session_state)

====
